---- MODULE Spec2Model ----
(***************************************************************************)
(* Batching / bucketing pipeline of tensor2tensor/utils/data_reader.py:    *)
(* the batching-scheme constructors (bucket_boundaries,                    *)
(* hparams_to_batching_scheme, constant_batching_scheme) and               *)
(* batch_examples, which feeds the scheme to                               *)
(* tf.contrib.training.bucket_by_sequence_length.                          *)
(***************************************************************************)
EXTENDS Integers, Sequences, FiniteSets, TLC

VARIABLES
  args,        \* the arguments of the scheme constructor being called
  pc,          \* "call" before the constructor has run, "returned" after
  scheme,      \* the dictionary returned by a scheme constructor
  boundaries,  \* the list returned by a direct bucket_boundaries call
  examples,       \* the examples read from the input so far, in order
  input_ended,    \* the input raised OutOfRangeError (a finite stream ended)
  bucket_queues,  \* per bucket: the PaddingFIFOQueue of examples
  buckets_closed, \* the bucket queues have been closed
  dequeued,       \* per bucket: the batch its runner thread has dequeued
                  \* and not yet enqueued to the top queue (<<>>: none)
  top_queue,      \* the queue of batches (capacity 2)
  top_closed,     \* the top queue has been closed
  outputs,        \* the batches returned to the consumer, in order
  tensor_call,    \* common_attention.py: the tensor builder being called
  tensor_pc,      \* "idle", "call", "built" or "recovered"
  tensor,         \* the tensor the builder returned
  recovered,      \* what attention_bias_to_padding returned for that tensor
  assertions_enabled,  \* Python runs the assert statements (no -O)
  ncalls,         \* attention functions called so far
  last_call,      \* the last attention call: its arguments and its outcome
  cache,          \* the cache dictionary shared by the multihead_attention calls
  history,        \* the cached calls that returned, in order
  layer,          \* the attention function called and its hyperparameters
  gate_call,      \* grouped_attention_multihead: num_groups and the predictions
  gate_pc,        \* "idle", "call", "gated" or "dispatched"
  gates,          \* q_gates and m_gates
  dispatched,     \* per group: the query and the memory positions dispatched to it
  expert_call,    \* self_attention_expert: depth, heads, mask_right, split_batch
  expert_pc,      \* "idle", "call", "built", "failed" or "ran"
  expert_graph,   \* the operations constructed in the two branches of tf.cond
  expert_out,     \* the last run: the input, the operations evaluated, the output shape
  local_call,     \* masked_local_attention_1d: length and block_length
  local_pc,       \* "idle", "call", "padded", "first", "tail" or "returned"
  local_plan,     \* the block length used, the padding and the number of blocks
  local_rows,     \* per padded query position: the key positions it attends to
  local_output,   \* local_rows cut to the original length
  heads_call,     \* multihead_self_attention_memory_efficient: num_heads, bias given
  heads_pc,       \* "idle", "call" or "built"
  heads_graph,    \* per operation of the forward graph: its data and control inputs
  heads_executed, \* the operations the current run has executed
  env_assigned,   \* HistoryBuffer._assigned
  env_ops,        \* which graph simulate constructed, whether reset is constructed
  env_buff,       \* the variable history_buffer: per slot its frames
  env_observ,     \* the variable observation: per slot a frame
  env_run,        \* the current run: the operations executed and their outputs
  env_prev,       \* both variables as they were when the current run started
  env_runs,       \* the number of runs started
  stack_pc,       \* "idle" or "ready"
  stack_history,  \* BatchStackWrapper._history_buffer: per slot its stack
  stack_log,      \* per slot: the observations returned since its last reset
  stack_calls,    \* the number of calls of reset and step
  serial_call,    \* Serial.call: the number of sub-layers, params and rng
  serial_pc,      \* "idle", "call", "loop" or "returned"
  serial_x,       \* x: the layers applied to the input so far, in order
  serial_i        \* the number of iterations of the loop done

schemeVars == <<args, scheme, boundaries>>

queueVars == <<examples, input_ended, bucket_queues, buckets_closed, dequeued,
               top_queue, top_closed, outputs>>

\* the variables of the models of the other components
groupedVars == <<gate_call, gate_pc, gates, dispatched>>

expertVars == <<expert_call, expert_pc, expert_graph, expert_out>>

localVars == <<local_call, local_pc, local_plan, local_rows, local_output>>

headsVars == <<heads_call, heads_pc, heads_graph, heads_executed>>

envVars == <<env_assigned, env_ops, env_buff, env_observ, env_run, env_prev, env_runs>>

stackVars == <<stack_pc, stack_history, stack_log, stack_calls>>

serialVars == <<serial_call, serial_pc, serial_x, serial_i>>

componentVars == <<groupedVars, expertVars, localVars, headsVars, envVars, stackVars, serialVars>>

NoGateCall == [num_groups |-> 0, q_pred |-> <<>>, m_pred |-> <<>>]

NoGates == [q_gates |-> <<>>, m_gates |-> <<>>]

NoDispatch == [q |-> <<>>, kv |-> <<>>]

\* grouped_attention_multihead is not running
GroupedIdle ==
  /\ gate_call = NoGateCall
  /\ gate_pc = "idle"
  /\ gates = NoGates
  /\ dispatched = NoDispatch

NoExpertCall == [depth |-> 0, attention_num_head |-> 1, mask_right |-> TRUE, split_batch |-> FALSE]

NoExpertGraph == [empty |-> <<>>, not_null |-> <<>>]

NoExpertOut == [batch_coordinate |-> <<>>, evaluated |-> <<>>, shape |-> <<>>]

\* self_attention_expert is not running
ExpertIdle ==
  /\ expert_call = NoExpertCall
  /\ expert_pc = "idle"
  /\ expert_graph = NoExpertGraph
  /\ expert_out = NoExpertOut

NoLocalCall == [length |-> 0, block_length |-> 0]

NoLocalPlan == [original_length |-> 0, block_length |-> 0, padding_size |-> 0,
                length |-> 0, num_blocks |-> 0]

\* masked_local_attention_1d is not running
LocalIdle ==
  /\ local_call = NoLocalCall
  /\ local_pc = "idle"
  /\ local_plan = NoLocalPlan
  /\ local_rows = <<>>
  /\ local_output = <<>>

NoHeadsCall == [num_heads |-> 0, with_bias |-> FALSE]

\* multihead_self_attention_memory_efficient is not running
HeadsIdle ==
  /\ heads_call = NoHeadsCall
  /\ heads_pc = "idle"
  /\ heads_graph = <<>>
  /\ heads_executed = {}


\* no SimulatedBatchEnv exists
EnvIdle ==
  /\ env_assigned = FALSE
  /\ env_ops = [simulate |-> "none", reset |-> "none"]
  /\ env_buff = <<>>
  /\ env_observ = <<>>
  /\ env_run = [op |-> "none", indices |-> <<>>, executed |-> {}, t |-> <<>>]
  /\ env_prev = [buff |-> <<>>, observ |-> <<>>]
  /\ env_runs = 0


\* no BatchStackWrapper exists
StackIdle ==
  /\ stack_pc = "idle"
  /\ stack_history = <<>>
  /\ stack_log = <<>>
  /\ stack_calls = 0


\* Serial.call is not running
SerialIdle ==
  /\ serial_call = [nlayers |-> 0, params |-> <<>>, rng |-> "None"]
  /\ serial_pc = "idle"
  /\ serial_x = <<>>
  /\ serial_i = 0

ComponentsIdle ==
  /\ GroupedIdle
  /\ ExpertIdle
  /\ LocalIdle
  /\ HeadsIdle
  /\ EnvIdle
  /\ StackIdle
  /\ SerialIdle

\* the variables of the models of layers/common_attention.py
attentionVars == <<tensor_call, tensor_pc, tensor, recovered, assertions_enabled,
                   ncalls, last_call, cache, history, layer>>

\* everything the model of utils/data_reader.py leaves alone
layersVars == <<attentionVars, componentVars>>

\* the variables of the model of utils/data_reader.py
batchingVars == <<args, pc, scheme, boundaries, examples, input_ended,
                  bucket_queues, buckets_closed, dequeued, top_queue, top_closed,
                  outputs>>

vars == <<args, pc, scheme, boundaries, examples, input_ended, bucket_queues,
          buckets_closed, dequeued, top_queue, top_closed, outputs,
          tensor_call, tensor_pc, tensor, recovered, assertions_enabled,
          ncalls, last_call, cache, history, layer, componentVars>>

\* no tensor builder is called
NoTensorCall ==
  [op |-> "none", length |-> 0, max_backward |-> 0, max_forward |-> 0,
   channels |-> 0, padding |-> <<>>, batch_coordinate |-> <<>>]

\* no attention function has been called
NoAttentionCall ==
  [fn |-> "none", total_key_depth |-> 1, total_value_depth |-> 1,
   num_heads |-> 1, attention_type |-> "dot_product", bias |-> FALSE,
   cache |-> FALSE, max_relative_position |-> 0, length |-> 0,
   graph |-> <<>>, outcome |-> "none", k |-> <<>>, v |-> <<>>,
   cache_before |-> [k |-> <<>>, v |-> <<>>]]

\* the models of layers/common_attention.py are not running
NoLayer ==
  [fn |-> "none", total_key_depth |-> 1, total_value_depth |-> 1,
   num_heads |-> 1, attention_type |-> "dot_product",
   max_relative_position |-> 0]

AttentionIdle ==
  /\ layer = NoLayer
  /\ tensor_call = NoTensorCall
  /\ tensor_pc = "idle"
  /\ tensor = <<>>
  /\ recovered = <<>>
  /\ assertions_enabled = TRUE
  /\ ncalls = 0
  /\ last_call = NoAttentionCall
  /\ cache = [k |-> <<>>, v |-> <<>>]
  /\ history = <<>>

LayersIdle ==
  /\ AttentionIdle
  /\ ComponentsIdle

----------------------------------------------------------------------------
(* Bounds of the model *)

MaxBatchSize == 20        \* hparams.batch_size ranges over 1..MaxBatchSize (and 128)
MaxHparamsLength == 20    \* hparams.max_length ranges over 0..MaxHparamsLength
MaxMantissaBits == 2      \* mantissa_bits ranges over 0..MaxMantissaBits
MaxMultiplier == 2        \* shard_multiplier, length_multiplier in 1..MaxMultiplier
MaxMinLength == 9         \* min_length of a direct bucket_boundaries call
MaxBoundaryLength == 40   \* max_length of a direct bucket_boundaries call

(* Program constants *)

DefaultMinLength == 8         \* bucket_boundaries(min_length=8)
DefaultMantissaBits == 2      \* bucket_boundaries(mantissa_bits=2)
ConstantSchemeLength == 1024  \* constant_batching_scheme: bucket_boundaries(1024)
TestBatchSize == 128          \* testBatchingSchemeBuckets: batch_size=128
NoLengthLimit == 1000000000   \* 10**9

----------------------------------------------------------------------------
(* Helpers *)

Max(a, b) == IF a >= b THEN a ELSE b

RECURSIVE Pow2(_)
Pow2(n) == IF n <= 0 THEN 1 ELSE 2 * Pow2(n - 1)

\* int(math.log(x, 2)) for x >= 1
RECURSIVE IntLog2(_)
IntLog2(x) == IF x < 2 THEN 0 ELSE 1 + IntLog2(x \div 2)

Last(s) == s[Len(s)]

----------------------------------------------------------------------------
(* bucket_boundaries *)

\* mutant: the step ignores mantissa_bits
BoundaryStepNoMantissa(x, mantissa_bits) == Pow2(Max(0, IntLog2(x)))

\* the value added to x by one iteration of the loop
BoundaryStep(x, mantissa_bits) == Pow2(Max(0, IntLog2(x) - mantissa_bits))

\* mutant: the loop runs while x <= max_length
RECURSIVE BoundaryLoopInclusive(_, _, _)
BoundaryLoopInclusive(x, max_length, mantissa_bits) ==
  IF x <= max_length
    THEN <<x>> \o BoundaryLoopInclusive(x + BoundaryStep(x, mantissa_bits),
                                        max_length, mantissa_bits)
    ELSE <<>>

\* the while loop, from the current x on
RECURSIVE BoundaryLoop(_, _, _)
BoundaryLoop(x, max_length, mantissa_bits) ==
  IF x < max_length
    THEN <<x>> \o BoundaryLoop(x + BoundaryStep(x, mantissa_bits),
                               max_length, mantissa_bits)
    ELSE <<>>

bucket_boundaries(max_length, min_length, mantissa_bits) ==
  BoundaryLoop(min_length, max_length, mantissa_bits)

----------------------------------------------------------------------------
(* hparams_to_batching_scheme, constant_batching_scheme *)

\* mutant: batch sizes computed for the boundaries only, without [max_length]
SchemeWithoutLastBucket(hparams, drop_long_sequences, shard_multiplier, length_multiplier) ==
  LET max_length == IF hparams.max_length # 0 THEN hparams.max_length
                                              ELSE hparams.batch_size
      bs == bucket_boundaries(max_length, DefaultMinLength,
                              hparams.batching_mantissa_bits)
  IN [boundaries  |-> [i \in 1..Len(bs) |-> bs[i] * length_multiplier],
      batch_sizes |-> [i \in 1..Len(bs) |->
                         Max(1, hparams.batch_size \div bs[i]) * shard_multiplier],
      max_length  |-> IF drop_long_sequences THEN max_length * length_multiplier
                                             ELSE NoLengthLimit]

\* mutant: the test of drop_long_sequences is inverted
SchemeDropInverted(hparams, drop_long_sequences, shard_multiplier, length_multiplier) ==
  LET max_length == IF hparams.max_length # 0 THEN hparams.max_length
                                              ELSE hparams.batch_size
      bs == bucket_boundaries(max_length, DefaultMinLength,
                              hparams.batching_mantissa_bits)
      lengths == bs \o <<max_length>>
  IN [boundaries  |-> [i \in 1..Len(bs) |-> bs[i] * length_multiplier],
      batch_sizes |-> [i \in 1..Len(lengths) |->
                         Max(1, hparams.batch_size \div lengths[i]) * shard_multiplier],
      max_length  |-> IF drop_long_sequences THEN NoLengthLimit
                                             ELSE max_length * length_multiplier]

hparams_to_batching_scheme(hparams, drop_long_sequences, shard_multiplier, length_multiplier) ==
  LET max_length == IF hparams.max_length # 0 THEN hparams.max_length
                                              ELSE hparams.batch_size
      bs == bucket_boundaries(max_length, DefaultMinLength,
                              hparams.batching_mantissa_bits)
      lengths == bs \o <<max_length>>
  IN [boundaries  |-> [i \in 1..Len(bs) |-> bs[i] * length_multiplier],
      batch_sizes |-> [i \in 1..Len(lengths) |->
                         Max(1, hparams.batch_size \div lengths[i]) * shard_multiplier],
      max_length  |-> IF drop_long_sequences THEN max_length * length_multiplier
                                             ELSE NoLengthLimit]

constant_batching_scheme(constant_batch_size_in_sequences) ==
  LET bs == bucket_boundaries(ConstantSchemeLength, DefaultMinLength,
                              DefaultMantissaBits)
  IN [boundaries  |-> bs,
      batch_sizes |-> [i \in 1..(1 + Len(bs)) |-> constant_batch_size_in_sequences],
      max_length  |-> NoLengthLimit]

----------------------------------------------------------------------------
(* The calls *)

Hparams(batch_size, max_length, mantissa_bits) ==
  [batch_size |-> batch_size, max_length |-> max_length,
   batching_mantissa_bits |-> mantissa_bits]

\* a call of hparams_to_batching_scheme
HparamsCall(hparams, drop, shard, mult) ==
  [op |-> "hparams_to_batching_scheme", hparams |-> hparams,
   drop_long_sequences |-> drop, shard_multiplier |-> shard,
   length_multiplier |-> mult, min_length |-> DefaultMinLength]

\* a call of constant_batching_scheme(n)
ConstantCall(n) ==
  [op |-> "constant_batching_scheme",
   hparams |-> Hparams(n, 0, DefaultMantissaBits),
   drop_long_sequences |-> FALSE, shard_multiplier |-> 1,
   length_multiplier |-> 1, min_length |-> DefaultMinLength]

\* a call of bucket_boundaries(max_length, min_length, mantissa_bits)
BoundariesCall(max_length, min_length, mantissa_bits) ==
  [op |-> "bucket_boundaries",
   hparams |-> Hparams(1, max_length, mantissa_bits),
   drop_long_sequences |-> FALSE, shard_multiplier |-> 1,
   length_multiplier |-> 1, min_length |-> min_length]

EmptyScheme == [boundaries |-> <<>>, batch_sizes |-> <<>>, max_length |-> 0]

SchemeCalls ==
  {HparamsCall(Hparams(b, l, m), d, s, k) :
     b \in (1..MaxBatchSize) \cup {TestBatchSize}, l \in 0..MaxHparamsLength,
     m \in 0..MaxMantissaBits, d \in BOOLEAN,
     s \in 1..MaxMultiplier, k \in 1..MaxMultiplier}
  \cup {ConstantCall(n) : n \in 1..MaxBatchSize}
  \cup {BoundariesCall(l, n, m) :
          l \in 0..MaxBoundaryLength, n \in 1..MaxMinLength,
          m \in 0..MaxMantissaBits}

CallHparamsToBatchingScheme ==
  /\ pc = "call"
  /\ args.op = "hparams_to_batching_scheme"
  /\ scheme' = hparams_to_batching_scheme(args.hparams, args.drop_long_sequences,
                                          args.shard_multiplier,
                                          args.length_multiplier)
  /\ pc' = "returned"
  /\ UNCHANGED <<args, boundaries>>
  /\ UNCHANGED queueVars
  /\ UNCHANGED layersVars

CallConstantBatchingScheme ==
  /\ pc = "call"
  /\ args.op = "constant_batching_scheme"
  /\ scheme' = constant_batching_scheme(args.hparams.batch_size)
  /\ pc' = "returned"
  /\ UNCHANGED <<args, boundaries>>
  /\ UNCHANGED queueVars
  /\ UNCHANGED layersVars

CallBucketBoundaries ==
  /\ pc = "call"
  /\ args.op = "bucket_boundaries"
  /\ boundaries' = bucket_boundaries(args.hparams.max_length, args.min_length,
                                     args.hparams.batching_mantissa_bits)
  /\ pc' = "returned"
  /\ UNCHANGED <<args, scheme>>
  /\ UNCHANGED queueVars
  /\ UNCHANGED layersVars

\* nothing of the input pipeline exists before batch_examples is called
NoPipeline ==
  /\ examples = <<>>
  /\ input_ended = FALSE
  /\ bucket_queues = <<>>
  /\ buckets_closed = FALSE
  /\ dequeued = <<>>
  /\ top_queue = <<>>
  /\ top_closed = FALSE
  /\ outputs = <<>>

InitScheme ==
  /\ args \in SchemeCalls
  /\ pc = "call"
  /\ scheme = EmptyScheme
  /\ boundaries = <<>>
  /\ NoPipeline
  /\ LayersIdle

NextScheme ==
  \/ CallHparamsToBatchingScheme
  \/ CallConstantBatchingScheme
  \/ CallBucketBoundaries

SpecScheme == InitScheme /\ [][NextScheme]_vars

----------------------------------------------------------------------------
(* Claims about the scheme constructors, checked under SpecScheme *)

StrictlyIncreasing(s) == \A i \in 1..(Len(s) - 1) : s[i] < s[i + 1]

Returned(op) == pc = "returned" /\ args.op = op

\* the call of testBatchingSchemeBuckets: batch_size=128, max_length unset,
\* batching_mantissa_bits=1, no multipliers
IsTestCall ==
  /\ Returned("hparams_to_batching_scheme")
  /\ args.hparams = Hparams(TestBatchSize, 0, 1)
  /\ args.shard_multiplier = 1
  /\ args.length_multiplier = 1

\* C1: hparams_to_batching_scheme with batch_size=128, max_length unset,
\* batching_mantissa_bits=1, shard_multiplier=1 and length_multiplier=1 returns
\* boundaries [8,12,16,24,32,48,64,96] and batch_sizes [16,10,8,5,4,2,2,1,1].
C1_TestSchemeBuckets ==
  IsTestCall =>
    /\ scheme.boundaries = <<8, 12, 16, 24, 32, 48, 64, 96>>
    /\ scheme.batch_sizes = <<16, 10, 8, 5, 4, 2, 2, 1, 1>>

C1_Witness == IsTestCall /\ Len(scheme.boundaries) = 8

\* C2: every scheme returned by hparams_to_batching_scheme or
\* constant_batching_scheme has strictly increasing boundaries and exactly one
\* more batch size than boundaries, the empty boundary list included.
C2_SchemeInvariant ==
  (Returned("hparams_to_batching_scheme") \/ Returned("constant_batching_scheme")) =>
    /\ StrictlyIncreasing(scheme.boundaries)
    /\ Len(scheme.batch_sizes) = Len(scheme.boundaries) + 1

C2_Witness ==
  /\ Returned("hparams_to_batching_scheme")
  /\ args.length_multiplier > 1
  /\ Len(scheme.boundaries) >= 2
  /\ Len(scheme.batch_sizes) = Len(scheme.boundaries) + 1

\* a direct bucket_boundaries call with max_length > min_length >= 1
BoundariesReturned ==
  /\ Returned("bucket_boundaries")
  /\ args.hparams.max_length > args.min_length
  /\ args.min_length >= 1

\* C3 as stated: the last boundary returned by bucket_boundaries(max_length,
\* min_length, mantissa_bits), max_length > min_length >= 1, is >= max_length.
C3_LastBoundaryReachesMaxLength ==
  BoundariesReturned =>
    /\ boundaries # <<>>
    /\ Last(boundaries) >= args.hparams.max_length

\* C3 amended: the list is not empty, starts at min_length and stops below
\* max_length: its last boundary is < max_length, and the value the schedule
\* would take next is >= max_length.
C3_LastBoundaryBelowMaxLength ==
  BoundariesReturned =>
    /\ boundaries # <<>>
    /\ boundaries[1] = args.min_length
    /\ Last(boundaries) < args.hparams.max_length
    /\ Last(boundaries)
         + Pow2(Max(0, IntLog2(Last(boundaries)) - args.hparams.batching_mantissa_bits))
       >= args.hparams.max_length

C3_Witness ==
  /\ BoundariesReturned
  /\ Len(boundaries) >= 3
  /\ Last(boundaries) = args.hparams.max_length - 1

\* C4 as stated: with length_multiplier = m the batch sizes are max(1, b // m)
\* of the batch sizes b returned for the same hparams with length_multiplier = 1.
C4_BatchSizesDividedByMultiplier ==
  Returned("hparams_to_batching_scheme") =>
    LET base == hparams_to_batching_scheme(args.hparams, args.drop_long_sequences,
                                           args.shard_multiplier, 1)
    IN /\ Len(scheme.batch_sizes) = Len(base.batch_sizes)
       /\ \A i \in 1..Len(scheme.batch_sizes) :
            scheme.batch_sizes[i]
              = Max(1, base.batch_sizes[i] \div args.length_multiplier)

\* C5: with length_multiplier = 1 the max_length of the scheme is
\* hparams.max_length when set, else hparams.batch_size, if drop_long_sequences;
\* otherwise it is greater than 10000.
C5_SchemeMaxLength ==
  (Returned("hparams_to_batching_scheme") /\ args.length_multiplier = 1) =>
    IF args.drop_long_sequences
      THEN scheme.max_length = (IF args.hparams.max_length # 0
                                  THEN args.hparams.max_length
                                  ELSE args.hparams.batch_size)
      ELSE scheme.max_length > 10000

C5_Witness ==
  /\ Returned("hparams_to_batching_scheme")
  /\ args.length_multiplier = 1
  /\ args.drop_long_sequences
  /\ args.hparams.batch_size = 20
  /\ args.hparams.max_length = 15
  /\ scheme.max_length = 15

----------------------------------------------------------------------------
(* batch_examples: the examples are bucketed by                            *)
(* tf.contrib.training.bucket_by_sequence_length, called with one reader   *)
(* thread, per-bucket PaddingFIFOQueues, dynamic_pad=True and the default  *)
(* allow_smaller_final_batch=False.  Every field of an example is a 1D     *)
(* tensor, as the docstring of batch_examples assumes.                     *)

MaxExamples == 2              \* examples read from the input

TopCapacity == 2              \* capacity=2
BucketCapacityFactor == 2     \* bucket_capacities=[2 * b ...]

InputLengths == {1, 8, 9, 17}   \* lengths of the "inputs" field
TargetLengths == {1, 8}         \* lengths of the "targets" field

\* the schemes the pipeline is run with
PipelineCalls ==
  {HparamsCall(Hparams(b, l, 0), d, 1, k) :
     b \in {8, 16, 20}, l \in {0, 9}, d \in BOOLEAN, k \in 1..2}
  \cup {ConstantCall(2)}

\* the id-th example of the input: every token of it is id, as the examples
\* of the test hold one repeated value
Example(id, inputs_length, targets_length) ==
  [inputs  |-> [k \in 1..inputs_length |-> id],
   targets |-> [k \in 1..targets_length |-> id]]

\* the length to bucket on: the maximum of tf.shape(v)[0] over the fields
SequenceLength(ex) == Max(Max(0, Len(ex.inputs)), Len(ex.targets))

\* mutant: the boundaries are passed as they are
BoundariesUnshifted(s) == s.boundaries

\* the bucket_boundaries argument: [b + 1 for b in boundaries]
BucketBoundariesArg(s) == [i \in 1..Len(s.boundaries) |-> s.boundaries[i] + 1]

\* mutant: every example is kept
KeepInputAlways(length, s) == TRUE

\* keep_input=(max_length <= batching_scheme["max_length"])
KeepInput(length, s) == length <= s.max_length

\* which_bucket: the least index whose range [buckets_min, buckets_max) holds
\* the length, buckets_min = [int32.min] + bounds, buckets_max = bounds + [int32.max]
WhichBucket(length, bounds) ==
  LET n == Len(bounds)
      InBucket(i) == /\ (i = 1 \/ bounds[i - 1] <= length)
                     /\ (i = n + 1 \/ length < bounds[i])
  IN CHOOSE i \in 1..(n + 1) : InBucket(i) /\ \A j \in 1..(i - 1) : ~InBucket(j)

RECURSIVE MaxLen(_)
MaxLen(rows) ==
  IF rows = <<>> THEN 0 ELSE Max(Len(Head(rows)), MaxLen(Tail(rows)))

\* mutant: rows are padded to one position more than the longest
PadRowsOneMore(rows) ==
  [r \in 1..Len(rows) |->
     [k \in 1..(MaxLen(rows) + 1) |-> IF k <= Len(rows[r]) THEN rows[r][k] ELSE 0]]

\* dynamic_pad=True: the rows of a batch are padded with 0s to its longest row
PadRows(rows) ==
  [r \in 1..Len(rows) |->
     [k \in 1..MaxLen(rows) |-> IF k <= Len(rows[r]) THEN rows[r][k] ELSE 0]]

NoBatch == [bucket |-> 0, inputs |-> <<>>, targets |-> <<>>]

\* dequeue_many(n) from the queue of bucket i
DequeueMany(queue, n, i) ==
  [bucket  |-> i,
   inputs  |-> PadRows([k \in 1..n |-> queue[k].inputs]),
   targets |-> PadRows([k \in 1..n |-> queue[k].targets])]

NumBuckets == Len(scheme.batch_sizes)

\* batch_examples(examples, batching_scheme) builds the queues
batch_examples ==
  /\ pc = "returned"
  /\ bucket_queues' = [i \in 1..NumBuckets |-> <<>>]
  /\ dequeued' = [i \in 1..NumBuckets |-> NoBatch]
  /\ pc' = "running"
  /\ UNCHANGED <<examples, input_ended, buckets_closed, top_queue, top_closed,
                 outputs>>
  /\ UNCHANGED schemeVars
  /\ UNCHANGED layersVars

\* the reader thread reads one example and enqueues it in its bucket, unless
\* keep_input is false; it waits while the bucket queue is full
EnqueueExample ==
  /\ pc = "running"
  /\ ~input_ended
  /\ Len(examples) < MaxExamples
  /\ \E li \in InputLengths, lt \in TargetLengths :
       LET ex == Example(Len(examples) + 1, li, lt)
           max_length == SequenceLength(ex)
           b == WhichBucket(max_length, BucketBoundariesArg(scheme))
       IN /\ examples' = Append(examples, ex)
          /\ IF KeepInput(max_length, scheme)
               THEN /\ Len(bucket_queues[b])
                         < BucketCapacityFactor * scheme.batch_sizes[b]
                    /\ bucket_queues' =
                         [bucket_queues EXCEPT ![b] = Append(@, ex)]
               ELSE UNCHANGED bucket_queues
  /\ UNCHANGED <<pc, input_ended, buckets_closed, dequeued, top_queue,
                 top_closed, outputs>>
  /\ UNCHANGED schemeVars
  /\ UNCHANGED layersVars

\* the input is exhausted: the reader thread ends and closes the bucket queues
EndOfInput ==
  /\ pc = "running"
  /\ ~input_ended
  /\ input_ended' = TRUE
  /\ buckets_closed' = TRUE
  /\ UNCHANGED <<pc, examples, bucket_queues, dequeued, top_queue, top_closed,
                 outputs>>
  /\ UNCHANGED schemeVars
  /\ UNCHANGED layersVars

\* the runner thread of bucket i dequeues batch_sizes[i] examples as a batch
DequeueBucket(i) ==
  /\ pc = "running"
  /\ dequeued[i] = NoBatch
  /\ Len(bucket_queues[i]) >= scheme.batch_sizes[i]
  /\ dequeued' = [dequeued EXCEPT
                    ![i] = DequeueMany(bucket_queues[i], scheme.batch_sizes[i], i)]
  /\ bucket_queues' =
       [bucket_queues EXCEPT
          ![i] = SubSeq(@, scheme.batch_sizes[i] + 1, Len(@))]
  /\ UNCHANGED <<pc, examples, input_ended, buckets_closed, top_queue,
                 top_closed, outputs>>
  /\ UNCHANGED schemeVars
  /\ UNCHANGED layersVars

\* the runner thread of bucket i enqueues its batch to the top queue
EnqueueTop(i) ==
  /\ pc = "running"
  /\ dequeued[i] # NoBatch
  /\ Len(top_queue) < TopCapacity
  /\ top_queue' = Append(top_queue, dequeued[i])
  /\ dequeued' = [dequeued EXCEPT ![i] = NoBatch]
  /\ UNCHANGED <<pc, examples, input_ended, bucket_queues, buckets_closed,
                 top_closed, outputs>>
  /\ UNCHANGED schemeVars
  /\ UNCHANGED layersVars

\* every runner thread has ended with OutOfRangeError (its closed queue holds
\* fewer than batch_sizes[i] examples): the top queue is closed
RunnersEnd ==
  /\ pc = "running"
  /\ buckets_closed
  /\ ~top_closed
  /\ \A i \in 1..NumBuckets :
       /\ dequeued[i] = NoBatch
       /\ Len(bucket_queues[i]) < scheme.batch_sizes[i]
  /\ top_closed' = TRUE
  /\ UNCHANGED <<pc, examples, input_ended, bucket_queues, buckets_closed,
                 dequeued, top_queue, outputs>>
  /\ UNCHANGED schemeVars
  /\ UNCHANGED layersVars

\* the consumer runs the outputs once: one batch leaves the top queue
DequeueTop ==
  /\ pc = "running"
  /\ top_queue # <<>>
  /\ outputs' = Append(outputs, Head(top_queue))
  /\ top_queue' = Tail(top_queue)
  /\ UNCHANGED <<pc, examples, input_ended, bucket_queues, buckets_closed,
                 dequeued, top_closed>>
  /\ UNCHANGED schemeVars
  /\ UNCHANGED layersVars

\* the consumer gets OutOfRangeError from the closed, empty top queue
OutOfRange ==
  /\ pc = "running"
  /\ top_closed
  /\ top_queue = <<>>
  /\ pc' = "done"
  /\ UNCHANGED queueVars
  /\ UNCHANGED schemeVars
  /\ UNCHANGED layersVars

Init ==
  /\ args \in PipelineCalls
  /\ pc = "call"
  /\ scheme = EmptyScheme
  /\ boundaries = <<>>
  /\ NoPipeline
  /\ LayersIdle

Next ==
  \/ CallHparamsToBatchingScheme
  \/ CallConstantBatchingScheme
  \/ batch_examples
  \/ EnqueueExample
  \/ EndOfInput
  \/ \E i \in 1..NumBuckets : DequeueBucket(i)
  \/ \E i \in 1..NumBuckets : EnqueueTop(i)
  \/ RunnersEnd
  \/ DequeueTop
  \/ OutOfRange

Spec == Init /\ [][Next]_vars

----------------------------------------------------------------------------
(* Claims about batch_examples, checked under Spec *)

Range(s) == {s[k] : k \in 1..Len(s)}

\* the batches that have left a bucket queue
EmittedBatches ==
  ({dequeued[i] : i \in 1..Len(dequeued)} \ {NoBatch})
    \cup Range(top_queue) \cup Range(outputs)

\* the example a row of a batch was made from: its tokens are its number
ExampleOfRow(row) == examples[row[1]]

\* the length of an example: the longest of its fields
LongestField(ex) ==
  IF Len(ex.inputs) >= Len(ex.targets) THEN Len(ex.inputs) ELSE Len(ex.targets)

\* the pairs <<example, bucket>> of the examples now in a bucket queue or in
\* an emitted batch
Placed ==
  (UNION {{<<bucket_queues[i][k], i>> : k \in 1..Len(bucket_queues[i])} :
            i \in 1..Len(bucket_queues)})
  \cup UNION {{<<ExampleOfRow(b.inputs[r]), b.bucket>> : r \in 1..Len(b.inputs)} :
                b \in EmittedBatches}

SchemeFromHparams == args.op = "hparams_to_batching_scheme"

\* C6 as stated: with drop_long_sequences=True no emitted batch holds an
\* example longer than hparams.batch_size, whatever hparams.max_length and
\* length_multiplier are.
C6_NoExampleLongerThanBatchSize ==
  (SchemeFromHparams /\ args.drop_long_sequences) =>
    \A b \in EmittedBatches : \A r \in 1..Len(b.inputs) :
      LongestField(ExampleOfRow(b.inputs[r])) <= args.hparams.batch_size

\* the least index of a boundary above the length, or the last bucket
BucketAboveLength(length) ==
  LET above == {i \in 1..Len(scheme.boundaries) : scheme.boundaries[i] > length}
  IN IF above = {} THEN Len(scheme.boundaries) + 1
     ELSE CHOOSE i \in above : \A j \in above : i <= j

\* the least index of a boundary at or above the length, or the last bucket
BucketAtOrAboveLength(length) ==
  LET above == {i \in 1..Len(scheme.boundaries) : scheme.boundaries[i] >= length}
  IN IF above = {} THEN Len(scheme.boundaries) + 1
     ELSE CHOOSE i \in above : \A j \in above : i <= j

\* C7 as stated: a kept example of length L (the longest of its fields) is in
\* the bucket of the least index i with boundaries[i] > L, or in the last
\* bucket when no boundary exceeds L.
C7_BucketOfLeastBoundaryAbove ==
  \A p \in Placed : p[2] = BucketAboveLength(LongestField(p[1]))

\* C7 amended: a kept example of length L is in the bucket of the least index
\* i with boundaries[i] >= L, or in the last bucket when every boundary is
\* below L.
C7_BucketOfLeastBoundaryAtOrAbove ==
  \A p \in Placed : p[2] = BucketAtOrAboveLength(LongestField(p[1]))

\* an example as long as a boundary, by its targets, is in that boundary's bucket
C7_Witness ==
  \E p \in Placed :
    /\ p[2] <= Len(scheme.boundaries)
    /\ LongestField(p[1]) = scheme.boundaries[p[2]]
    /\ Len(p[1].targets) > Len(p[1].inputs)

\* the examples of a batch, row by row
BatchExamples(b) == [r \in 1..Len(b.inputs) |-> ExampleOfRow(b.inputs[r])]

Zeros(n) == [k \in 1..n |-> 0]

OutputsOf(id) ==
  {<<k, r>> \in (1..Len(outputs)) \X (1..MaxExamples) :
     r <= Len(outputs[k].inputs) /\ outputs[k].inputs[r][1] = id}

\* C9 as stated: when a finite input has been consumed to its end, every
\* example not longer than the scheme's max_length has been emitted in exactly
\* one batch.
C9_EveryKeptExampleEmittedOnce ==
  pc = "done" =>
    \A id \in 1..Len(examples) :
      LongestField(examples[id]) <= scheme.max_length =>
        Cardinality(OutputsOf(id)) = 1

\* the schemes of C10
TokenBoundedScheme ==
  /\ SchemeFromHparams
  /\ args.drop_long_sequences
  /\ args.shard_multiplier = 1
  /\ args.length_multiplier = 1
  /\ args.hparams.max_length = 0

\* C10: with drop_long_sequences=True, no multipliers and hparams.max_length
\* unset, every emitted batch holds at most hparams.batch_size tokens per
\* field: rows times padded length <= hparams.batch_size.
C10_TokensPerBatch ==
  TokenBoundedScheme =>
    \A b \in EmittedBatches :
      /\ Len(b.inputs) * Len(b.inputs[1]) <= args.hparams.batch_size
      /\ Len(b.targets) * Len(b.targets[1]) <= args.hparams.batch_size

\* a batch of exactly hparams.batch_size tokens has reached the consumer
C10_Witness ==
  /\ TokenBoundedScheme
  /\ \E k \in 1..Len(outputs) :
       /\ Len(outputs[k].inputs) >= 2
       /\ Len(outputs[k].inputs) * Len(outputs[k].inputs[1])
            = args.hparams.batch_size

----------------------------------------------------------------------------
(* layers/common_attention.py: the attention-bias builders and             *)
(* get_timing_signal_1d.  A tensor is a nested sequence, indexed from 1.   *)
(* The floats 0.0, 1.0 and -1e9 are the integers 0, 1 and -10^9 (all three *)
(* are exact in float32).                                                  *)

MaxBiasLength == 4       \* length, memory_length range over 0..MaxBiasLength
MaxBiasBatch == 1        \* batch ranges over 1..MaxBiasBatch
MaxCoordinate == 2       \* batch coordinates range over 0..MaxCoordinate
MaxChannels == 6         \* channels ranges over 0..MaxChannels

BiasMagnitude == 1000000000   \* 1e9

Abs(x) == IF x < 0 THEN -x ELSE x

Min(a, b) == IF a <= b THEN a ELSE b

RECURSIVE SumTo(_, _)
SumTo(row, k) == IF k <= 0 THEN 0 ELSE row[k] + SumTo(row, k - 1)

\* tf.cumsum(x, axis=1) of a [batch, length] tensor
Cumsum(x) == [b \in 1..Len(x) |-> [k \in 1..Len(x[b]) |-> SumTo(x[b], k)]]

\* tf.cumsum(x, axis=1, exclusive=True)
CumsumExclusive(x) ==
  [b \in 1..Len(x) |-> [k \in 1..Len(x[b]) |-> SumTo(x[b], k - 1)]]

\* tf.matrix_band_part(tf.ones([length, length]), num_lower, num_upper)
OnesBandPart(length, num_lower, num_upper) ==
  [m \in 1..length |-> [n \in 1..length |->
     IF /\ (num_lower < 0 \/ m - n <= num_lower)
        /\ (num_upper < 0 \/ n - m <= num_upper)
       THEN 1 ELSE 0]]

attention_bias_local(length, max_backward, max_forward) ==
  LET band == OnesBandPart(length, max_backward, max_forward)
      ret == [i \in 1..length |-> [j \in 1..length |->
                (-BiasMagnitude) * (1 - band[i][j])]]
  IN << <<ret>> >>

\* mutant: the backward and forward distances are swapped
LowerTriangleSwapped(length) == attention_bias_local(length, 0, -1)

attention_bias_lower_triangle(length) == attention_bias_local(length, -1, 0)

attention_bias_ignore_padding(memory_padding) ==
  LET ret == [b \in 1..Len(memory_padding) |->
                [m \in 1..Len(memory_padding[b]) |->
                   memory_padding[b][m] * (-BiasMagnitude)]]
  IN [b \in 1..Len(ret) |-> << <<ret[b]>> >>]

\* mutant: the threshold is the bias value itself
ToPaddingBelowBias(attention_bias) ==
  [b \in 1..Len(attention_bias) |->
     [m \in 1..Len(attention_bias[b][1][1]) |->
        IF attention_bias[b][1][1][m] < -BiasMagnitude THEN 1 ELSE 0]]

attention_bias_to_padding(attention_bias) ==
  [b \in 1..Len(attention_bias) |->
     [m \in 1..Len(attention_bias[b][1][1]) |->
        IF attention_bias[b][1][1][m] < -1 THEN 1 ELSE 0]]

\* mutant: the cumulative sum of the padding includes the position itself
InTargetInclusive(padding) == Cumsum(padding)

\* in_target: zeros for the source part and the separator, ones for the targets
InTarget(padding) == CumsumExclusive(padding)

attention_bias_prepend_inputs_full_attention(padding) ==
  LET target_pos == Cumsum(InTarget(padding))
  IN [b \in 1..Len(padding) |->
        << [i \in 1..Len(padding[b]) |-> [j \in 1..Len(padding[b]) |->
              (IF target_pos[b][j] > target_pos[b][i] THEN 1 ELSE 0)
                * (-BiasMagnitude)]] >>]

\* the float -log(n), n a positive integer: 0 if and only if n = 1
NegLog(n) == [neg_log_of |-> n]

attention_bias_proximal(length) ==
  LET diff == [i \in 1..length |-> [j \in 1..length |-> (j - 1) - (i - 1)]]
  IN << << [i \in 1..length |-> [j \in 1..length |->
              NegLog(1 + Abs(diff[i][j]))]] >> >>

\* mutant: the differences are not thresholded to 1.0
CoordinatesUnthresholded(batch_coordinate) ==
  LET c == [i \in 1..Len(batch_coordinate) |-> batch_coordinate[i][1]]
  IN [i \in 1..Len(c) |-> [j \in 1..Len(c) |->
        Abs(c[i] - c[j]) * (-BiasMagnitude)]]

attention_bias_coordinates(batch_coordinate) ==
  LET c == [i \in 1..Len(batch_coordinate) |-> batch_coordinate[i][1]]
  IN [i \in 1..Len(c) |-> [j \in 1..Len(c) |->
        Min(1, Abs(c[i] - c[j])) * (-BiasMagnitude)]]

\* an element of the timing signal: fn(position * inv_timescales[timescale]),
\* where inv_timescales = min_timescale * exp(range(num_timescales) *
\* -log(max_timescale / min_timescale) / (num_timescales - 1)); position and
\* timescale are counted from 0; "pad" is a zero added by tf.pad
SignalEntry(fn, position, timescale, num_timescales) ==
  [fn |-> fn, position |-> position, timescale |-> timescale,
   num_timescales |-> num_timescales]

\* the zeros tf.pad appends to the row of a position
SignalPad(position, channels) ==
  [i \in 1..(channels % 2) |-> SignalEntry("pad", position, 0, 0)]

\* mutant: the cosines come first
TimingSignalCosSin(length, channels) ==
  LET num_timescales == channels \div 2
  IN << [t \in 1..length |->
          [i \in 1..num_timescales |->
             SignalEntry("cos", t - 1, i - 1, num_timescales)]
          \o [i \in 1..num_timescales |->
                SignalEntry("sin", t - 1, i - 1, num_timescales)]
          \o SignalPad(t - 1, channels)] >>

get_timing_signal_1d(length, channels) ==
  LET num_timescales == channels \div 2
      sin_scaled_time == [t \in 1..length |-> [i \in 1..num_timescales |->
                            SignalEntry("sin", t - 1, i - 1, num_timescales)]]
      cos_scaled_time == [t \in 1..length |-> [i \in 1..num_timescales |->
                            SignalEntry("cos", t - 1, i - 1, num_timescales)]]
      signal == [t \in 1..length |-> sin_scaled_time[t] \o cos_scaled_time[t]]
      padded == [t \in 1..length |-> signal[t] \o SignalPad(t - 1, channels)]
  IN <<padded>>

----------------------------------------------------------------------------
(* The calls of the tensor builders *)

TensorCall(op, length, max_backward, max_forward, channels, padding, coord) ==
  [op |-> op, length |-> length, max_backward |-> max_backward,
   max_forward |-> max_forward, channels |-> channels, padding |-> padding,
   batch_coordinate |-> coord]

\* the 0/1 tensors of shape [batch, length]
Masks(batch, length) == [1..batch -> [1..length -> {0, 1}]]

TensorCalls ==
  {TensorCall("attention_bias_local", n, mb, mf, 0, <<>>, <<>>) :
     n \in 0..MaxBiasLength, mb \in (-1)..MaxBiasLength, mf \in (-1)..MaxBiasLength}
  \cup {TensorCall("attention_bias_lower_triangle", n, 0, 0, 0, <<>>, <<>>) :
          n \in 0..MaxBiasLength}
  \cup {TensorCall("attention_bias_proximal", n, 0, 0, 0, <<>>, <<>>) :
          n \in 0..MaxBiasLength}
  \cup {TensorCall("get_timing_signal_1d", n, 0, 0, c, <<>>, <<>>) :
          n \in 0..MaxBiasLength, c \in 0..MaxChannels}
  \cup UNION {{TensorCall("attention_bias_ignore_padding", 0, 0, 0, 0, m, <<>>) :
                 m \in Masks(b, n)} : b \in 1..MaxBiasBatch, n \in 0..MaxBiasLength}
  \cup UNION {{TensorCall("attention_bias_prepend_inputs_full_attention",
                          0, 0, 0, 0, m, <<>>) :
                 m \in Masks(b, n)} : b \in 1..MaxBiasBatch, n \in 0..MaxBiasLength}
  \cup UNION {{TensorCall("attention_bias_coordinates", 0, 0, 0, 0, <<>>,
                          [i \in 1..n |-> <<c[i]>>]) :
                 c \in [1..n -> 0..MaxCoordinate]} : n \in 0..MaxBiasLength}

TensorReturns(value) ==
  /\ tensor' = value
  /\ tensor_pc' = "built"
  /\ UNCHANGED <<tensor_call, recovered, assertions_enabled, ncalls, last_call,
                 cache, history, layer>>
  /\ UNCHANGED <<batchingVars, componentVars>>

CallAttentionBiasLocal ==
  /\ tensor_pc = "call"
  /\ tensor_call.op = "attention_bias_local"
  /\ TensorReturns(attention_bias_local(tensor_call.length,
                                        tensor_call.max_backward,
                                        tensor_call.max_forward))

CallAttentionBiasLowerTriangle ==
  /\ tensor_pc = "call"
  /\ tensor_call.op = "attention_bias_lower_triangle"
  /\ TensorReturns(attention_bias_lower_triangle(tensor_call.length))

CallAttentionBiasIgnorePadding ==
  /\ tensor_pc = "call"
  /\ tensor_call.op = "attention_bias_ignore_padding"
  /\ TensorReturns(attention_bias_ignore_padding(tensor_call.padding))

\* attention_bias_to_padding applied to the bias attention_bias_ignore_padding
\* returned
CallAttentionBiasToPadding ==
  /\ tensor_pc = "built"
  /\ tensor_call.op = "attention_bias_ignore_padding"
  /\ recovered' = attention_bias_to_padding(tensor)
  /\ tensor_pc' = "recovered"
  /\ UNCHANGED <<tensor_call, tensor, assertions_enabled, ncalls, last_call,
                 cache, history, layer>>
  /\ UNCHANGED <<batchingVars, componentVars>>

CallAttentionBiasPrependInputsFullAttention ==
  /\ tensor_pc = "call"
  /\ tensor_call.op = "attention_bias_prepend_inputs_full_attention"
  /\ TensorReturns(attention_bias_prepend_inputs_full_attention(tensor_call.padding))

CallAttentionBiasProximal ==
  /\ tensor_pc = "call"
  /\ tensor_call.op = "attention_bias_proximal"
  /\ TensorReturns(attention_bias_proximal(tensor_call.length))

CallAttentionBiasCoordinates ==
  /\ tensor_pc = "call"
  /\ tensor_call.op = "attention_bias_coordinates"
  /\ TensorReturns(attention_bias_coordinates(tensor_call.batch_coordinate))

CallGetTimingSignal1d ==
  /\ tensor_pc = "call"
  /\ tensor_call.op = "get_timing_signal_1d"
  /\ TensorReturns(get_timing_signal_1d(tensor_call.length, tensor_call.channels))

\* the model of utils/data_reader.py is not running
BatchingIdle ==
  /\ args = ConstantCall(1)
  /\ pc = "idle"
  /\ scheme = EmptyScheme
  /\ boundaries = <<>>
  /\ NoPipeline

InitBias ==
  /\ tensor_call \in TensorCalls
  /\ tensor_pc = "call"
  /\ tensor = <<>>
  /\ recovered = <<>>
  /\ assertions_enabled = TRUE
  /\ ncalls = 0
  /\ last_call = NoAttentionCall
  /\ cache = [k |-> <<>>, v |-> <<>>]
  /\ history = <<>>
  /\ layer = NoLayer
  /\ BatchingIdle
  /\ ComponentsIdle

NextBias ==
  \/ CallAttentionBiasLocal
  \/ CallAttentionBiasLowerTriangle
  \/ CallAttentionBiasIgnorePadding
  \/ CallAttentionBiasToPadding
  \/ CallAttentionBiasPrependInputsFullAttention
  \/ CallAttentionBiasProximal
  \/ CallAttentionBiasCoordinates
  \/ CallGetTimingSignal1d

SpecBias == InitBias /\ [][NextBias]_vars

----------------------------------------------------------------------------
(* Claims about the attention-bias builders and the timing signal *)

Built(op) == tensor_pc \in {"built", "recovered"} /\ tensor_call.op = op

Forbidden == -BiasMagnitude

\* C11: for every length >= 1 and all 0 <= i, j < length,
\* attention_bias_lower_triangle(length)[0,0,i,j] is 0 when j <= i and -1e9
\* when j > i.
C11_LowerTriangleValues ==
  (Built("attention_bias_lower_triangle") /\ tensor_call.length >= 1) =>
    \A i, j \in 0..(tensor_call.length - 1) :
      tensor[1][1][i + 1][j + 1] = (IF j <= i THEN 0 ELSE Forbidden)

C11_Witness ==
  /\ Built("attention_bias_lower_triangle")
  /\ tensor_call.length >= 3
  /\ tensor[1][1][1][3] = Forbidden
  /\ tensor[1][1][3][1] = 0

\* C12: attention_bias_to_padding is a left-inverse of
\* attention_bias_ignore_padding: for every 0/1 padding mask m of shape
\* [batch, memory_length], attention_bias_to_padding(
\* attention_bias_ignore_padding(m)) equals m exactly.
C12_ToPaddingInvertsIgnorePadding ==
  (tensor_pc = "recovered" /\ tensor_call.op = "attention_bias_ignore_padding")
    => recovered = tensor_call.padding

C12_Witness ==
  /\ tensor_pc = "recovered"
  /\ tensor_call.op = "attention_bias_ignore_padding"
  /\ Len(tensor_call.padding) = MaxBiasBatch
  /\ \E b \in 1..Len(recovered) : \E m, n \in 1..Len(recovered[b]) :
       recovered[b][m] = 1 /\ recovered[b][n] = 0

\* the elements of the bias tensor a 0/-1e9 builder returned
HardBiasElements ==
  CASE tensor_call.op \in {"attention_bias_local", "attention_bias_lower_triangle"} ->
         {tensor[1][1][i][j] : i, j \in 1..tensor_call.length}
    [] tensor_call.op = "attention_bias_ignore_padding" ->
         UNION {{tensor[b][1][1][m] : m \in 1..Len(tensor_call.padding[b])} :
                  b \in 1..Len(tensor_call.padding)}
    [] tensor_call.op = "attention_bias_prepend_inputs_full_attention" ->
         UNION {{tensor[b][1][i][j] : i, j \in 1..Len(tensor_call.padding[b])} :
                  b \in 1..Len(tensor_call.padding)}
    [] tensor_call.op = "attention_bias_coordinates" ->
         {tensor[i][j] : i, j \in 1..Len(tensor_call.batch_coordinate)}
    [] OTHER -> {}

HardBiasBuilders ==
  {"attention_bias_local", "attention_bias_lower_triangle",
   "attention_bias_ignore_padding", "attention_bias_coordinates",
   "attention_bias_prepend_inputs_full_attention"}

\* the float -log(n) is 0 or -1e9: -log(n) = 0 only for n = 1, and no integer
\* n has log(n) = 1e9
NegLogIsZeroOrForbidden(x) == x.neg_log_of = 1

\* C13 (as stated): every element of the tensor produced by each
\* attention-bias builder, attention_bias_proximal included, is either 0 or
\* -1e9, never an intermediate value.
C13_EveryBuilderZeroOrForbidden ==
  /\ (tensor_pc # "call" /\ tensor_call.op \in HardBiasBuilders) =>
       HardBiasElements \subseteq {0, Forbidden}
  /\ Built("attention_bias_proximal") =>
       \A i, j \in 1..tensor_call.length :
         NegLogIsZeroOrForbidden(tensor[1][1][i][j])

\* C13 (amended): every element of the tensors of attention_bias_local,
\* attention_bias_lower_triangle, attention_bias_ignore_padding (on a 0/1
\* mask), attention_bias_coordinates and
\* attention_bias_prepend_inputs_full_attention is 0 or -1e9; the element
\* [0,0,i,j] of attention_bias_proximal is -log(1 + |i - j|), which is 0 on the
\* diagonal and an intermediate value everywhere else.
C13_HardBuildersZeroOrForbidden ==
  /\ (tensor_pc # "call" /\ tensor_call.op \in HardBiasBuilders) =>
       HardBiasElements \subseteq {0, Forbidden}
  /\ Built("attention_bias_proximal") =>
       \A i, j \in 1..tensor_call.length :
         /\ tensor[1][1][i][j] = NegLog(1 + Abs(i - j))
         /\ NegLogIsZeroOrForbidden(tensor[1][1][i][j]) <=> (i = j)

C13_Witness ==
  /\ Built("attention_bias_proximal")
  /\ tensor_call.length >= 2
  /\ ~NegLogIsZeroOrForbidden(tensor[1][1][1][2])

\* the rows of the padding that hold exactly one padding position
SeparatorOf(row) ==
  IF Cardinality({p \in 1..Len(row) : row[p] = 1}) = 1
    THEN CHOOSE p \in 1..Len(row) : row[p] = 1
    ELSE 0

\* the index of position p within the targets; inputs and the separator at s
\* count as index 0
TargetIndex(p, s) == IF p > s THEN p - s ELSE 0

\* C14: for a padding row with exactly one padding position s, separating the
\* inputs from the targets, attention_bias_prepend_inputs_full_attention
\* forbids (query i, key j) exactly when j is a target whose index within the
\* targets exceeds that of i; every other pair is allowed (0).
C14_PrependInputsFullAttention ==
  Built("attention_bias_prepend_inputs_full_attention") =>
    \A b \in 1..Len(tensor_call.padding) :
      LET row == tensor_call.padding[b]
          s == SeparatorOf(row)
      IN s # 0 =>
           \A i, j \in 1..Len(row) :
             tensor[b][1][i][j] =
               (IF TargetIndex(j, s) > TargetIndex(i, s) THEN Forbidden ELSE 0)

C14_Witness ==
  /\ Built("attention_bias_prepend_inputs_full_attention")
  /\ Len(tensor_call.padding[1]) = 4
  /\ SeparatorOf(tensor_call.padding[1]) = 2
  /\ tensor[1][1][1][3] = Forbidden
  /\ tensor[1][1][3][4] = Forbidden
  /\ tensor[1][1][4][3] = 0
  /\ tensor[1][1][1][2] = 0

\* the element [0, t, c] of the timing signal that was built
SignalAt(t, c) == tensor[1][t + 1][c + 1]

\* when channels is odd the last channel is zero
LastChannelPadded ==
  (tensor_call.channels % 2 = 1) =>
    \A t \in 0..(tensor_call.length - 1) :
      SignalAt(t, tensor_call.channels - 1).fn = "pad"

\* C20 (as stated): get_timing_signal_1d lays the channels out in interleaved
\* pairs: for every timescale index i < channels // 2, channel 2i holds
\* sin(t / timescale_i) and channel 2i+1 holds cos(t / timescale_i), and when
\* channels is odd the last channel is zero.
C20_TimingSignalInterleaved ==
  Built("get_timing_signal_1d") =>
    LET num_timescales == tensor_call.channels \div 2
    IN /\ \A t \in 0..(tensor_call.length - 1) :
            \A i \in 0..(num_timescales - 1) :
              /\ SignalAt(t, 2 * i) = SignalEntry("sin", t, i, num_timescales)
              /\ SignalAt(t, 2 * i + 1) = SignalEntry("cos", t, i, num_timescales)
       /\ LastChannelPadded

\* C20 (amended): get_timing_signal_1d lays the channels out in two
\* concatenated halves: for every timescale index i < channels // 2, channel i
\* holds the sine and channel channels // 2 + i the cosine of timescale i, and
\* when channels is odd the last channel is zero.
C20_TimingSignalConcatenated ==
  Built("get_timing_signal_1d") =>
    LET num_timescales == tensor_call.channels \div 2
    IN /\ Len(tensor) = 1
       /\ Len(tensor[1]) = tensor_call.length
       /\ \A t \in 0..(tensor_call.length - 1) :
            /\ Len(tensor[1][t + 1]) = tensor_call.channels
            /\ \A i \in 0..(num_timescales - 1) :
                 /\ SignalAt(t, i) = SignalEntry("sin", t, i, num_timescales)
                 /\ SignalAt(t, num_timescales + i) =
                      SignalEntry("cos", t, i, num_timescales)
       /\ LastChannelPadded

C20_Witness ==
  /\ Built("get_timing_signal_1d")
  /\ tensor_call.channels = 5
  /\ tensor_call.length >= 2
  /\ SignalAt(1, 1) = SignalEntry("sin", 1, 1, 2)
  /\ SignalAt(1, 2) = SignalEntry("cos", 1, 0, 2)
  /\ SignalAt(1, 4).fn = "pad"

----------------------------------------------------------------------------
(* layers/common_attention.py: graph construction by multihead_attention,  *)
(* multihead_attention_2d and dot_product_attention_relative.  A call adds *)
(* operations to the graph in program order until it returns or raises;    *)
(* "graph" lists the operations the call constructed.  The calls are       *)
(* self-attention calls (memory_antecedent=None) with the default filter   *)
(* widths.  max_relative_position = 0 also stands for the default None:    *)
(* Python's "not" treats both alike.                                       *)

MaxCalls == 2               \* attention calls in one behaviour
MaxPositions == 2           \* positions supplied by one call: 1..MaxPositions
MaxRelativePosition == 1    \* max_relative_position in -Max..Max

TotalDepths == {2, 3}
HeadCounts == {1, 2}

AttentionTypes ==
  {"dot_product", "dot_product_relative", "local_mask_right", "local_unmasked",
   "masked_dilated_1d", "unmasked_dilated_1d"}

AttentionTypes2d == {"local_attention_2d", "masked_local_attention_2d"}

\* an attention_type string that no branch names
UnsupportedType == "unsupported"

Errors == {"ValueError", "NotImplementedError", "AssertionError"}

Built0(graph) == [graph |-> graph, outcome |-> "returned"]

Raised(graph, error) == [graph |-> graph, outcome |-> error]

\* mutant: only the key depth is checked
HeadsDivideKeyDepth(total_key_depth, total_value_depth, num_heads) ==
  total_key_depth % num_heads = 0

\* neither "if total_key_depth % num_heads != 0" nor
\* "if total_value_depth % num_heads != 0" raises
HeadsDivideDepths(total_key_depth, total_value_depth, num_heads) ==
  /\ total_key_depth % num_heads = 0
  /\ total_value_depth % num_heads = 0

\* compute_qkv for self-attention with filter widths 1
compute_qkv == <<"qkv_transform", "split">>

compute_qkv_2d == <<"qkv_transform_2d", "split">>

\* q, k, v = split_heads(...); q *= key_depth_per_head**-0.5
SplitHeads == <<"split_heads_q", "split_heads_k", "split_heads_v", "scale_q">>

SplitHeads2d ==
  <<"split_heads_2d_q", "split_heads_2d_k", "split_heads_2d_v", "scale_q">>

\* mutant: the bias is not required
CacheErrorTypeOnly(attention_type, bias) ==
  IF attention_type # "dot_product" THEN "NotImplementedError" ELSE "none"

\* the checks under "if cache is not None"
CacheError(attention_type, bias) ==
  IF attention_type # "dot_product" THEN "NotImplementedError"
  ELSE IF ~bias THEN "ValueError"
  ELSE "none"

\* mutant: the new keys go in front of the saved ones
CacheConcatReversed(saved, new) == new \o saved

\* tf.concat([cache["k"], k], axis=1)
CacheConcat(saved, new) == saved \o new

\* "if not max_relative_position": true of 0 and of None only
RelativeGuardRejects(max_relative_position) == max_relative_position = 0

\* _generate_relative_positions_embeddings: the matrix of relative positions
\* is built first; tf.get_variable("embeddings", [vocab_size, heads * depth])
\* raises ValueError for a negative dimension
GenerateRelativePositionsEmbeddings(max_relative_position, name) ==
  LET vocab_size == max_relative_position * 2 + 1
  IN IF vocab_size < 0
       THEN Raised(<<name \o "/relative_positions_matrix">>, "ValueError")
       ELSE Built0(<<name \o "/relative_positions_matrix",
                     name \o "/embeddings", name \o "/gather">>)

dot_product_attention_relative(bias, max_relative_position) ==
  IF RelativeGuardRejects(max_relative_position)
    THEN Raised(<<>>, "ValueError")
    ELSE
      LET relations_keys ==
            GenerateRelativePositionsEmbeddings(max_relative_position,
                                                "relative_positions_keys")
          relations_values ==
            GenerateRelativePositionsEmbeddings(max_relative_position,
                                                "relative_positions_values")
      IN IF relations_keys.outcome # "returned"
           THEN relations_keys
         ELSE IF relations_values.outcome # "returned"
           THEN Raised(relations_keys.graph \o relations_values.graph,
                       relations_values.outcome)
         ELSE Built0(relations_keys.graph \o relations_values.graph
                     \o <<"relative_attention_inner">>
                     \o (IF bias THEN <<"add_bias">> ELSE <<>>)
                     \o <<"softmax", "dropout", "relative_attention_inner">>)

\* mutant: the assert statement never fires
AssertNever(enabled, holds) == FALSE

\* "assert holds" raises AssertionError unless Python runs with -O
AssertFails(enabled, holds) == enabled /\ ~holds

\* the if/elif chain over attention_type
AttentionOfType(attention_type, bias, max_relative_position, enabled) ==
  CASE attention_type = "dot_product" -> Built0(<<"dot_product_attention">>)
    [] attention_type = "dot_product_relative" ->
         dot_product_attention_relative(bias, max_relative_position)
    [] attention_type = "local_mask_right" ->
         Built0(<<"masked_local_attention_1d">>)
    [] attention_type = "local_unmasked" -> Built0(<<"local_attention_1d">>)
    [] attention_type = "masked_dilated_1d" ->
         Built0(<<"masked_dilated_self_attention_1d">>)
    [] OTHER ->
         IF AssertFails(enabled, attention_type = "unmasked_dilated_1d")
           THEN Raised(<<>>, "AssertionError")
           ELSE Built0(<<"dilated_self_attention_1d">>)

AttentionOfType2d(attention_type, enabled) ==
  IF attention_type = "local_attention_2d"
    THEN Built0(<<"local_attention_2d">>)
  ELSE IF AssertFails(enabled, attention_type = "masked_local_attention_2d")
    THEN Raised(<<>>, "AssertionError")
  ELSE Built0(<<"masked_local_attention_2d">>)

\* the keys and the values compute_qkv projects from the positions of call n
NewKeys(n, length) == [p \in 1..length |-> [kind |-> "k", call |-> n, pos |-> p]]

NewValues(n, length) == [p \in 1..length |-> [kind |-> "v", call |-> n, pos |-> p]]

\* the result of a call: the operations constructed, the outcome, the keys and
\* values the attention was given, and the cache dictionary afterwards
CallResult(graph, outcome, k, v, saved) ==
  [graph |-> graph, outcome |-> outcome, k |-> k, v |-> v, cache |-> saved]

multihead_attention(a, saved, enabled, n) ==
  IF ~HeadsDivideDepths(a.total_key_depth, a.total_value_depth, a.num_heads)
    THEN CallResult(<<>>, "ValueError", <<>>, <<>>, saved)
  ELSE IF a.cache /\ CacheError(a.attention_type, a.bias) # "none"
    THEN CallResult(compute_qkv, CacheError(a.attention_type, a.bias),
                    <<>>, <<>>, saved)
  ELSE
    LET k == IF a.cache THEN CacheConcat(saved.k, NewKeys(n, a.length))
                        ELSE NewKeys(n, a.length)
        v == IF a.cache THEN CacheConcat(saved.v, NewValues(n, a.length))
                        ELSE NewValues(n, a.length)
        after == IF a.cache THEN [k |-> k, v |-> v] ELSE saved
        before == compute_qkv
                  \o (IF a.cache THEN <<"concat_k", "concat_v">> ELSE <<>>)
                  \o SplitHeads
        x == AttentionOfType(a.attention_type, a.bias, a.max_relative_position,
                             enabled)
    IN IF x.outcome # "returned"
         THEN CallResult(before \o x.graph, x.outcome, k, v, after)
         ELSE CallResult(before \o x.graph
                         \o <<"combine_heads", "output_transform">>,
                         "returned", k, v, after)

multihead_attention_2d(a, enabled) ==
  IF ~HeadsDivideDepths(a.total_key_depth, a.total_value_depth, a.num_heads)
    THEN Raised(<<>>, "ValueError")
  ELSE
    LET x == AttentionOfType2d(a.attention_type, enabled)
    IN IF x.outcome # "returned"
         THEN Raised(compute_qkv_2d \o SplitHeads2d \o x.graph, x.outcome)
         ELSE Built0(compute_qkv_2d \o SplitHeads2d \o x.graph
                     \o <<"combine_heads_2d", "output_transform">>)

----------------------------------------------------------------------------
(* The attention calls.  The function and its hyperparameters are those of *)
(* one layer of a model and stay the same from call to call; the bias, the *)
(* cache and the number of positions are the inputs of each call.          *)

Layer(fn, kd, vd, nh, attention_type, mrp) ==
  [fn |-> fn, total_key_depth |-> kd, total_value_depth |-> vd,
   num_heads |-> nh, attention_type |-> attention_type,
   max_relative_position |-> mrp]

RelativePositions == (-MaxRelativePosition)..MaxRelativePosition

\* max_relative_position is only read by the dot_product_relative branch
RelativePositionsOf(attention_type) ==
  IF attention_type = "dot_product_relative" THEN RelativePositions ELSE {0}

Layers ==
  UNION {{Layer("multihead_attention", kd, vd, nh, t, mrp) :
            kd \in TotalDepths, vd \in TotalDepths, nh \in HeadCounts,
            mrp \in RelativePositionsOf(t)} :
           t \in AttentionTypes \cup {UnsupportedType}}
  \cup {Layer("multihead_attention_2d", kd, vd, nh, t, 0) :
          kd \in TotalDepths, vd \in TotalDepths, nh \in HeadCounts,
          t \in AttentionTypes2d \cup {UnsupportedType}}
  \cup {Layer("dot_product_attention_relative", nh, nh, nh,
              "dot_product_relative", mrp) :
          nh \in HeadCounts, mrp \in RelativePositions}

AttentionArgs(bias, use_cache, length) ==
  [fn |-> layer.fn, total_key_depth |-> layer.total_key_depth,
   total_value_depth |-> layer.total_value_depth,
   num_heads |-> layer.num_heads, attention_type |-> layer.attention_type,
   bias |-> bias, cache |-> use_cache,
   max_relative_position |-> layer.max_relative_position, length |-> length]

Called(a, r, cache_before) ==
  [fn |-> a.fn, total_key_depth |-> a.total_key_depth,
   total_value_depth |-> a.total_value_depth, num_heads |-> a.num_heads,
   attention_type |-> a.attention_type, bias |-> a.bias, cache |-> a.cache,
   max_relative_position |-> a.max_relative_position, length |-> a.length,
   graph |-> r.graph, outcome |-> r.outcome, k |-> r.k, v |-> r.v,
   cache_before |-> cache_before]

AttentionReturns ==
  /\ ncalls' = ncalls + 1
  /\ UNCHANGED <<tensor_call, tensor_pc, tensor, recovered, assertions_enabled,
                 layer>>
  /\ UNCHANGED <<batchingVars, componentVars>>

CallMultiheadAttention ==
  /\ layer.fn = "multihead_attention"
  /\ ncalls < MaxCalls
  /\ \E bias, use_cache \in BOOLEAN, length \in 1..MaxPositions :
       LET a == AttentionArgs(bias, use_cache, length)
           r == multihead_attention(a, cache, assertions_enabled, ncalls + 1)
       IN /\ last_call' = Called(a, r, cache)
          /\ cache' = r.cache
          /\ history' =
               IF use_cache /\ r.outcome = "returned"
                 THEN Append(history, [k |-> NewKeys(ncalls + 1, length),
                                       v |-> NewValues(ncalls + 1, length)])
                 ELSE history
  /\ AttentionReturns

CallMultiheadAttention2d ==
  /\ layer.fn = "multihead_attention_2d"
  /\ ncalls < MaxCalls
  /\ LET a == AttentionArgs(FALSE, FALSE, 1)
         r == multihead_attention_2d(a, assertions_enabled)
     IN last_call' = Called(a, CallResult(r.graph, r.outcome, <<>>, <<>>, cache),
                            cache)
  /\ UNCHANGED <<cache, history>>
  /\ AttentionReturns

CallDotProductAttentionRelative ==
  /\ layer.fn = "dot_product_attention_relative"
  /\ ncalls < MaxCalls
  /\ \E bias \in BOOLEAN, length \in 1..MaxPositions :
       LET a == AttentionArgs(bias, FALSE, length)
           r == dot_product_attention_relative(bias, a.max_relative_position)
       IN last_call' = Called(a, CallResult(r.graph, r.outcome, <<>>, <<>>, cache),
                              cache)
  /\ UNCHANGED <<cache, history>>
  /\ AttentionReturns

InitAttention ==
  /\ layer \in Layers
  /\ tensor_call = NoTensorCall
  /\ tensor_pc = "idle"
  /\ tensor = <<>>
  /\ recovered = <<>>
  /\ assertions_enabled \in BOOLEAN
  /\ ncalls = 0
  /\ last_call = NoAttentionCall
  /\ cache = [k |-> <<>>, v |-> <<>>]
  /\ history = <<>>
  /\ BatchingIdle
  /\ ComponentsIdle

NextAttention ==
  \/ CallMultiheadAttention
  \/ CallMultiheadAttention2d
  \/ CallDotProductAttentionRelative

SpecAttention == InitAttention /\ [][NextAttention]_vars

----------------------------------------------------------------------------
(* Claims about the attention calls *)

LastCallOf(fn) == ncalls > 0 /\ last_call.fn = fn

\* num_heads does not divide both depths of the last call
LastCallIndivisible ==
  \/ last_call.total_key_depth % last_call.num_heads # 0
  \/ last_call.total_value_depth % last_call.num_heads # 0

\* the operations compute_qkv and compute_qkv_2d construct
ProjectionOps == {"qkv_transform", "qkv_transform_2d", "split"}

\* C15: multihead_attention and multihead_attention_2d raise a configuration
\* error (ValueError) whenever total_key_depth or total_value_depth is not
\* divisible by num_heads, before any operation is constructed: the graph of
\* the call is empty and the cache is untouched.
C15_IndivisibleDepthsRaiseFirst ==
  ((LastCallOf("multihead_attention") \/ LastCallOf("multihead_attention_2d"))
     /\ LastCallIndivisible) =>
    /\ last_call.outcome = "ValueError"
    /\ last_call.graph = <<>>
    /\ cache = last_call.cache_before

C15_Witness ==
  /\ LastCallOf("multihead_attention")
  /\ last_call.total_key_depth % last_call.num_heads = 0
  /\ last_call.total_value_depth % last_call.num_heads # 0
  /\ last_call.outcome = "ValueError"
  /\ last_call.graph = <<>>

\* multihead_attention was called with a cache and bias=None
LastCallCachedWithoutBias ==
  /\ LastCallOf("multihead_attention")
  /\ last_call.cache
  /\ ~last_call.bias

\* C16 (as stated): when multihead_attention is called with a cache and
\* bias=None the error is raised before any q/k/v projection has been
\* constructed.
C16_MissingBiasRaisesBeforeProjections ==
  LastCallCachedWithoutBias =>
    /\ last_call.outcome \in Errors
    /\ Range(last_call.graph) \cap ProjectionOps = {}

\* C16 (amended): when multihead_attention is called with a cache and
\* bias=None the call raises at graph-construction time and leaves the cache
\* untouched, but only the depth check comes before compute_qkv: with
\* indivisible depths it raises ValueError on an empty graph; otherwise the
\* q/k/v projections are constructed and then it raises NotImplementedError if
\* attention_type is not "dot_product" and ValueError if it is; no head split,
\* cache concatenation or attention operation has been constructed.
C16_MissingBiasRaisesAfterProjections ==
  LastCallCachedWithoutBias =>
    /\ cache = last_call.cache_before
    /\ IF LastCallIndivisible
         THEN last_call.outcome = "ValueError" /\ last_call.graph = <<>>
         ELSE /\ last_call.graph = <<"qkv_transform", "split">>
              /\ last_call.outcome =
                   (IF last_call.attention_type = "dot_product"
                      THEN "ValueError" ELSE "NotImplementedError")

C16_Witness ==
  /\ LastCallCachedWithoutBias
  /\ last_call.attention_type = "dot_product"
  /\ last_call.outcome = "ValueError"
  /\ "qkv_transform" \in Range(last_call.graph)
  /\ Len(last_call.cache_before.k) > 0
  /\ cache = last_call.cache_before

\* the operations _generate_relative_positions_embeddings constructs to build
\* a relative-position embedding
EmbeddingOps ==
  {"relative_positions_keys/relative_positions_matrix",
   "relative_positions_keys/embeddings", "relative_positions_keys/gather",
   "relative_positions_values/relative_positions_matrix",
   "relative_positions_values/embeddings", "relative_positions_values/gather"}

\* the last call reached dot_product_attention_relative
LastCallRelative ==
  \/ LastCallOf("dot_product_attention_relative")
  \/ /\ LastCallOf("multihead_attention")
     /\ last_call.attention_type = "dot_product_relative"
     /\ ~LastCallIndivisible
     /\ ~last_call.cache

\* C17: dot_product_attention_relative raises ValueError for every
\* max_relative_position <= 0, zero and negative alike, before it builds any
\* relative-position embedding: no operation of
\* _generate_relative_positions_embeddings has been constructed.
C17_NonPositiveRelativePositionRaises ==
  (LastCallRelative /\ last_call.max_relative_position <= 0) =>
    /\ last_call.outcome = "ValueError"
    /\ Range(last_call.graph) \cap EmbeddingOps = {}

LastCallUnsupported ==
  /\ LastCallOf("multihead_attention")
  /\ last_call.attention_type \notin AttentionTypes

\* C18 (as stated): multihead_attention called with an unsupported
\* attention_type string always raises, before the q/k/v projections and the
\* head splits are constructed.
C18_UnsupportedTypeRaisesFirst ==
  LastCallUnsupported =>
    /\ last_call.outcome \in Errors
    /\ last_call.graph = <<>>

\* C18 (amended): multihead_attention called with an unsupported
\* attention_type string checks the type last.  With indivisible depths it
\* raises ValueError on an empty graph; with a cache it raises
\* NotImplementedError after the q/k/v projections; otherwise the projections,
\* the head splits and the query scaling are constructed and then the assert
\* raises AssertionError, before any attention, combine_heads or output
\* operation.  When Python runs without assertions (-O) that last case raises
\* nothing: the call builds dilated_self_attention_1d and returns.
C18_UnsupportedTypeCheckedLast ==
  LastCallUnsupported =>
    IF LastCallIndivisible
      THEN last_call.outcome = "ValueError" /\ last_call.graph = <<>>
    ELSE IF last_call.cache
      THEN /\ last_call.outcome = "NotImplementedError"
           /\ last_call.graph = <<"qkv_transform", "split">>
    ELSE IF assertions_enabled
      THEN /\ last_call.outcome = "AssertionError"
           /\ last_call.graph =
                <<"qkv_transform", "split", "split_heads_q", "split_heads_k",
                  "split_heads_v", "scale_q">>
    ELSE /\ last_call.outcome = "returned"
         /\ last_call.graph =
              <<"qkv_transform", "split", "split_heads_q", "split_heads_k",
                "split_heads_v", "scale_q", "dilated_self_attention_1d",
                "combine_heads", "output_transform">>

C18_Witness ==
  /\ LastCallUnsupported
  /\ assertions_enabled
  /\ last_call.outcome = "AssertionError"
  /\ "split_heads_q" \in Range(last_call.graph)
  /\ "combine_heads" \notin Range(last_call.graph)

RECURSIVE SavedKeys(_)
SavedKeys(h) == IF h = <<>> THEN <<>> ELSE SavedKeys(SubSeq(h, 1, Len(h) - 1)) \o h[Len(h)].k

RECURSIVE SavedValues(_)
SavedValues(h) == IF h = <<>> THEN <<>> ELSE SavedValues(SubSeq(h, 1, Len(h) - 1)) \o h[Len(h)].v

RECURSIVE SavedPositions(_)
SavedPositions(h) == IF h = <<>> THEN 0 ELSE SavedPositions(SubSeq(h, 1, Len(h) - 1)) + Len(h[Len(h)].k)

\* the entries of a cached tensor are in call order, positions ascending
InCallOrder(t) ==
  \A i, j \in 1..Len(t) :
    i < j => \/ t[i].call < t[j].call
             \/ t[i].call = t[j].call /\ t[i].pos < t[j].pos

\* C19: starting from an empty cache, after any sequence of n successful
\* multihead_attention calls sharing that cache, cache['k'] and cache['v'] hold
\* the keys and values of all n calls concatenated in call order, their length
\* the total number of positions supplied, and each call attends over all the
\* previously saved keys/values followed by its own.
C19_CacheHoldsAllCallsInOrder ==
  /\ cache.k = SavedKeys(history)
  /\ cache.v = SavedValues(history)
  /\ Len(cache.k) = SavedPositions(history)
  /\ Len(cache.v) = SavedPositions(history)
  /\ InCallOrder(cache.k)
  /\ InCallOrder(cache.v)
  /\ (LastCallOf("multihead_attention") /\ last_call.cache
        /\ last_call.outcome = "returned") =>
       /\ last_call.k = last_call.cache_before.k
                          \o [p \in 1..last_call.length |->
                                [kind |-> "k", call |-> ncalls, pos |-> p]]
       /\ last_call.v = last_call.cache_before.v
                          \o [p \in 1..last_call.length |->
                                [kind |-> "v", call |-> ncalls, pos |-> p]]
       /\ cache = [k |-> last_call.k, v |-> last_call.v]

C19_Witness ==
  /\ Len(history) = 2
  /\ Len(history[1].k) = 2
  /\ Len(cache.k) = 3
  /\ cache.k[1].call = 1
  /\ cache.k[3].call = 2
  /\ cache.v[3] = [kind |-> "v", call |-> 2, pos |-> 1]

----------------------------------------------------------------------------
\* what an action of one component leaves unchanged, and what is idle while it runs
othersOfGrouped == <<batchingVars, attentionVars, expertVars, localVars, headsVars, envVars, stackVars, serialVars>>

OthersIdleOfGrouped ==
  /\ BatchingIdle
  /\ AttentionIdle
  /\ ExpertIdle
  /\ LocalIdle
  /\ HeadsIdle
  /\ EnvIdle
  /\ StackIdle
  /\ SerialIdle

othersOfExpert == <<batchingVars, attentionVars, groupedVars, localVars, headsVars, envVars, stackVars, serialVars>>

OthersIdleOfExpert ==
  /\ BatchingIdle
  /\ AttentionIdle
  /\ GroupedIdle
  /\ LocalIdle
  /\ HeadsIdle
  /\ EnvIdle
  /\ StackIdle
  /\ SerialIdle

othersOfLocal == <<batchingVars, attentionVars, groupedVars, expertVars, headsVars, envVars, stackVars, serialVars>>

OthersIdleOfLocal ==
  /\ BatchingIdle
  /\ AttentionIdle
  /\ GroupedIdle
  /\ ExpertIdle
  /\ HeadsIdle
  /\ EnvIdle
  /\ StackIdle
  /\ SerialIdle

othersOfHeads == <<batchingVars, attentionVars, groupedVars, expertVars, localVars, envVars, stackVars, serialVars>>

OthersIdleOfHeads ==
  /\ BatchingIdle
  /\ AttentionIdle
  /\ GroupedIdle
  /\ ExpertIdle
  /\ LocalIdle
  /\ EnvIdle
  /\ StackIdle
  /\ SerialIdle

othersOfEnv == <<batchingVars, attentionVars, groupedVars, expertVars, localVars, headsVars, stackVars, serialVars>>

OthersIdleOfEnv ==
  /\ BatchingIdle
  /\ AttentionIdle
  /\ GroupedIdle
  /\ ExpertIdle
  /\ LocalIdle
  /\ HeadsIdle
  /\ StackIdle
  /\ SerialIdle

othersOfStack == <<batchingVars, attentionVars, groupedVars, expertVars, localVars, headsVars, envVars, serialVars>>

OthersIdleOfStack ==
  /\ BatchingIdle
  /\ AttentionIdle
  /\ GroupedIdle
  /\ ExpertIdle
  /\ LocalIdle
  /\ HeadsIdle
  /\ EnvIdle
  /\ SerialIdle

othersOfSerial == <<batchingVars, attentionVars, groupedVars, expertVars, localVars, headsVars, envVars, stackVars>>

OthersIdleOfSerial ==
  /\ BatchingIdle
  /\ AttentionIdle
  /\ GroupedIdle
  /\ ExpertIdle
  /\ LocalIdle
  /\ HeadsIdle
  /\ EnvIdle
  /\ StackIdle

\* end of the frames of the components

----------------------------------------------------------------------------
(* layers/common_attention.py: grouped_attention_multihead, the gates of   *)
(* one element of the [batch * heads] dimension.  q_pred and m_pred are    *)
(* the predictions [length, num_groups]; the floats are small integers.    *)

MaxGroups == 2            \* num_groups ranges over 1..MaxGroups

GateLengths == {1, 2}     \* length_q and length_kv

PredValues == {-2, -1}    \* the values of q_pred and m_pred

\* tf.greater(x, math.log(threshold)) for the default threshold 0.3:
\* log(0.3) lies between -2 and -1
GreaterThanLogThreshold(x) == x >= -1

\* tf.argmax(row): the index (from 0) of the first largest element
ArgMax(row) ==
  CHOOSE g \in 0..(Len(row) - 1) :
    /\ \A h \in 0..(Len(row) - 1) : row[h + 1] <= row[g + 1]
    /\ \A h \in 0..(g - 1) : row[h + 1] < row[g + 1]

\* tf.one_hot(index, depth)
OneHot(index, depth) == [g \in 1..depth |-> IF g - 1 = index THEN 1 ELSE 0]

\* q_gates = tf.one_hot(tf.argmax(q_pred, axis=2), num_groups, axis=-1)
QGates(q_pred, num_groups) ==
  [i \in 1..Len(q_pred) |-> OneHot(ArgMax(q_pred[i]), num_groups)]

\* mutant: the first memory position is not forced into the groups
MGatesUnforced(m_pred, num_groups) ==
  [j \in 1..Len(m_pred) |-> [g \in 1..num_groups |->
     IF GreaterThanLogThreshold(m_pred[j][g]) THEN 1 ELSE 0]]

\* m_gates = to_float(m_pred > log(threshold)), then the maximum with
\* reshape(one_hot([0], length_kv), [1, length_kv, 1])
MGates(m_pred, num_groups) ==
  LET length_kv == Len(m_pred)
      thresholded == [j \in 1..length_kv |-> [g \in 1..num_groups |->
                        IF GreaterThanLogThreshold(m_pred[j][g]) THEN 1 ELSE 0]]
      first == OneHot(0, length_kv)
  IN [j \in 1..length_kv |-> [g \in 1..num_groups |->
        Max(thresholded[j][g], first[j])]]

\* SparseDispatcher(num_groups, gating).expert_to_batch_indices(): the
\* positions (from 0) whose gate of group e (from 0) is not zero
ExpertToBatchIndices(gating, e) == {j \in 0..(Len(gating) - 1) : gating[j + 1][e + 1] > 0}

Predictions(length, num_groups) == [1..length -> [1..num_groups -> PredValues]]

GroupedAttentionMultihead ==
  /\ gate_pc = "call"
  /\ gates' = [q_gates |-> QGates(gate_call.q_pred, gate_call.num_groups),
               m_gates |-> MGates(gate_call.m_pred, gate_call.num_groups)]
  /\ gate_pc' = "gated"
  /\ UNCHANGED <<gate_call, dispatched>>
  /\ UNCHANGED othersOfGrouped

\* grouped_attention_single: the positions dispatched to every group
GroupedAttentionSingle ==
  /\ gate_pc = "gated"
  /\ dispatched' =
       [q |-> [e \in 1..gate_call.num_groups |->
                 ExpertToBatchIndices(gates.q_gates, e - 1)],
        kv |-> [e \in 1..gate_call.num_groups |->
                  ExpertToBatchIndices(gates.m_gates, e - 1)]]
  /\ gate_pc' = "dispatched"
  /\ UNCHANGED <<gate_call, gates>>
  /\ UNCHANGED othersOfGrouped

InitGrouped ==
  /\ \E num_groups \in 1..MaxGroups, length_q \in GateLengths, length_kv \in GateLengths :
       \E q_pred \in Predictions(length_q, num_groups),
          m_pred \in Predictions(length_kv, num_groups) :
         gate_call = [num_groups |-> num_groups, q_pred |-> q_pred, m_pred |-> m_pred]
  /\ gate_pc = "call"
  /\ gates = NoGates
  /\ dispatched = NoDispatch
  /\ OthersIdleOfGrouped

NextGrouped ==
  \/ GroupedAttentionMultihead
  \/ GroupedAttentionSingle

SpecGrouped == InitGrouped /\ [][NextGrouped]_vars

\* C21 (as stated): every query position belongs to exactly one group and
\* every memory position belongs to at least one group, so that no group is
\* dispatched an empty set of memory positions.
C21_EveryMemoryPositionInSomeGroup ==
  gate_pc = "dispatched" =>
    /\ \A i \in 1..Len(gates.q_gates) :
         Cardinality({g \in 1..gate_call.num_groups : gates.q_gates[i][g] = 1}) = 1
    /\ \A j \in 1..Len(gates.m_gates) :
         \E g \in 1..gate_call.num_groups : gates.m_gates[j][g] = 1
    /\ \A e \in 1..gate_call.num_groups : dispatched.kv[e] # {}

\* C21 (amended): every query position belongs to exactly one group (its gate
\* row is one-hot); the first memory position belongs to every group and any
\* other memory position belongs to the groups whose prediction exceeds
\* log(threshold), possibly to none; so no group is dispatched an empty set of
\* memory positions.
C21_FirstMemoryPositionInEveryGroup ==
  gate_pc = "dispatched" =>
    /\ \A i \in 1..Len(gates.q_gates) :
         /\ Cardinality({g \in 1..gate_call.num_groups : gates.q_gates[i][g] = 1}) = 1
         /\ \A g \in 1..gate_call.num_groups : gates.q_gates[i][g] \in {0, 1}
         /\ Cardinality({e \in 1..gate_call.num_groups : (i - 1) \in dispatched.q[e]}) = 1
    /\ \A g \in 1..gate_call.num_groups :
         /\ gates.m_gates[1][g] = 1
         /\ \A j \in 2..Len(gates.m_gates) :
              gates.m_gates[j][g] = 1 <=> gate_call.m_pred[j][g] >= -1
    /\ \A e \in 1..gate_call.num_groups : 0 \in dispatched.kv[e]

C21_Witness ==
  /\ gate_pc = "dispatched"
  /\ gate_call.num_groups = 2
  /\ Len(gate_call.m_pred) = 2
  /\ gate_call.m_pred[1] = <<-2, -2>>
  /\ gate_call.m_pred[2] = <<-2, -2>>
  /\ gates.m_gates = << <<1, 1>>, <<0, 0>> >>
  /\ dispatched.kv = << {0}, {0} >>

----------------------------------------------------------------------------
(* layers/common_attention.py: self_attention_expert.  The graph is built  *)
(* once (tf.cond constructs both of its branches); every run evaluates the *)
(* branch its predicate selects.  A shape is the sequence of dimensions.   *)

MaxExpertDepth == 2       \* depth of x ranges over 1..MaxExpertDepth
MaxTokens == 3            \* an expert receives 0..MaxTokens positions

\* mutant: the empty case is not special-cased
ExpertNeverEmpty(length) == FALSE

\* tf.equal(length, 0)
ExpertIsEmpty(length) == length = 0

\* add_or_set_if over bias_past and bias_batch: the biases that are summed;
\* none of them leaves bias = None
ExpertBiases(mask_right, split_batch) ==
  (IF mask_right THEN <<"attention_bias_lower_triangle">> ELSE <<>>)
  \o (IF ~split_batch THEN <<"attention_bias_coordinates">> ELSE <<>>)

\* length_not_null as constructed: tf.reshape(None, ...) raises when no bias
\* is set, multihead_attention raises when num_heads does not divide depth
LengthNotNullGraph(c) ==
  IF ExpertBiases(c.mask_right, c.split_batch) = <<>>
    THEN Raised(<<"attention_bias_coordinates", "attention_bias_lower_triangle">>,
                "ValueError")
  ELSE IF ~HeadsDivideDepths(c.depth, c.depth, c.attention_num_head)
    THEN Raised(<<"attention_bias_coordinates", "attention_bias_lower_triangle",
                  "reshape_bias">>, "ValueError")
  ELSE Built0(<<"attention_bias_coordinates", "attention_bias_lower_triangle",
                "reshape_bias", "multihead_attention">>
              \o (IF c.split_batch THEN <<"map_ids">> ELSE <<"squeeze">>))

\* tf.squeeze(out, 0)
Squeeze0(shape) == Tail(shape)

\* the shape of the tensor length_not_null returns: multihead_attention gives
\* [1, length, output_depth]; map_ids gives [batch, depth]
LengthNotNullShape(c, length) ==
  IF c.split_batch THEN <<length, c.depth>> ELSE Squeeze0(<<1, length, c.depth>>)

\* tf.zeros(shape=[0, depth], name="empty_out")
EmptyOutShape(c) == <<0, c.depth>>

ExpertConfigs ==
  [depth : 1..MaxExpertDepth, attention_num_head : HeadCounts,
   mask_right : BOOLEAN, split_batch : BOOLEAN]

\* graph construction of self_attention_expert
BuildSelfAttentionExpert ==
  /\ expert_pc = "call"
  /\ LET g == LengthNotNullGraph(expert_call)
     IN /\ expert_graph' = [empty |-> <<"empty_out">>, not_null |-> g.graph]
        /\ expert_pc' = IF g.outcome = "returned" THEN "built" ELSE "failed"
  /\ UNCHANGED <<expert_call, expert_out>>
  /\ UNCHANGED othersOfExpert

\* one run of the graph for an expert that received the positions whose batch
\* coordinates are batch_coordinate
RunSelfAttentionExpert ==
  /\ expert_pc \in {"built", "ran"}
  /\ \E length \in 0..MaxTokens :
       \E batch_coordinate \in [1..length -> 0..1] :
         expert_out' =
           IF ExpertIsEmpty(length)
             THEN [batch_coordinate |-> batch_coordinate,
                   evaluated |-> <<"Print">> \o expert_graph.empty,
                   shape |-> EmptyOutShape(expert_call)]
             ELSE [batch_coordinate |-> batch_coordinate,
                   evaluated |-> expert_graph.not_null,
                   shape |-> LengthNotNullShape(expert_call, length)]
  /\ expert_pc' = "ran"
  /\ UNCHANGED <<expert_call, expert_graph>>
  /\ UNCHANGED othersOfExpert

InitExpert ==
  /\ expert_call \in ExpertConfigs
  /\ expert_pc = "call"
  /\ expert_graph = NoExpertGraph
  /\ expert_out = NoExpertOut
  /\ OthersIdleOfExpert

NextExpert ==
  \/ BuildSelfAttentionExpert
  \/ RunSelfAttentionExpert

SpecExpert == InitExpert /\ [][NextExpert]_vars

\* C22: self_attention_expert tolerates an expert that receives zero tokens:
\* when the dispatched length is 0 it returns a zero-length placeholder of
\* shape [0, depth], of the same rank as the non-empty result ([length,
\* depth]), and multihead_attention is not evaluated for that expert.
C22_EmptyExpertReturnsPlaceholder ==
  expert_pc = "ran" =>
    /\ Len(expert_out.shape) = 2
    /\ expert_out.shape = <<Len(expert_out.batch_coordinate), expert_call.depth>>
    /\ Len(expert_out.batch_coordinate) = 0 =>
         /\ expert_out.shape = <<0, expert_call.depth>>
         /\ "multihead_attention" \notin Range(expert_out.evaluated)
         /\ "empty_out" \in Range(expert_out.evaluated)
    /\ Len(expert_out.batch_coordinate) > 0 =>
         "multihead_attention" \in Range(expert_out.evaluated)

C22_Witness ==
  /\ expert_pc = "ran"
  /\ expert_out.batch_coordinate = <<>>
  /\ expert_out.shape = <<0, 2>>
  /\ "multihead_attention" \in Range(expert_graph.not_null)
  /\ ~expert_call.split_batch

----------------------------------------------------------------------------
(* layers/common_attention.py: masked_local_attention_1d.  Positions are   *)
(* numbered from 0.  The attention weights of a query are represented by   *)
(* the set of key positions whose logit is not masked with -1e9.           *)

MaxLocalLength == 8       \* length ranges over 1..MaxLocalLength
MaxBlockLength == 3       \* block_length ranges over 1..MaxBlockLength

DefaultBlockLength == 128

\* tf.where(tf.less(length, block_length * 2), length, block_length)
LocalBlockLength(length, block_length) ==
  IF length < block_length * 2 THEN length ELSE block_length

\* tf.mod(-length, block_length)
LocalPaddingSize(length, block_length) == (-length) % block_length

\* tf.matrix_band_part(tf.ones([rows, cols]), num_lower, num_upper)
MatrixBandPart(rows, cols, num_lower, num_upper) ==
  [m \in 1..rows |-> [n \in 1..cols |->
     IF /\ (num_lower < 0 \/ m - n <= num_lower)
        /\ (num_upper < 0 \/ n - m <= num_upper)
       THEN 1 ELSE 0]]

\* mutant: nothing of the local keys is masked
LocalGoodPartAll(block_length, local_length) ==
  MatrixBandPart(block_length, local_length, -1, -1)

\* good_part
LocalGoodPart(block_length, local_length) ==
  MatrixBandPart(block_length, local_length, -1, block_length)

\* mask = (1.0 - good_part) * -1e9
LocalMask(block_length, local_length) ==
  LET good_part == LocalGoodPart(block_length, local_length)
  IN [m \in 1..block_length |-> [n \in 1..local_length |->
        (1 - good_part[m][n]) * (-BiasMagnitude)]]

\* local(k) for the query block b >= 1: the positions of the keys of the
\* previous block followed by those of the current block
LocalPositions(b, block_length) ==
  [n \in 1..(2 * block_length) |->
     IF n <= block_length THEN (b - 1) * block_length + (n - 1)
     ELSE b * block_length + (n - 1 - block_length)]

\* the keys each query of the first block attends to
FirstBlockRows(block_length) ==
  LET bias == attention_bias_lower_triangle(block_length)[1][1]
  IN [m \in 1..block_length |->
        {n - 1 : n \in {c \in 1..block_length : bias[m][c] = 0}}]

\* the keys each query of the tail block b attends to
TailBlockRows(b, block_length) ==
  LET local_k == LocalPositions(b, block_length)
      local_length == Len(local_k)
      mask == LocalMask(block_length, local_length)
  IN [m \in 1..block_length |->
        {local_k[n] : n \in {c \in 1..local_length : mask[m][c] = 0}}]

\* the rows of the tail blocks 1..(num_blocks - 1), reshaped to one axis
RECURSIVE TailRows(_, _)
TailRows(num_blocks, block_length) ==
  IF num_blocks <= 1 THEN <<>>
  ELSE TailRows(num_blocks - 1, block_length)
       \o TailBlockRows(num_blocks - 1, block_length)

\* block_length, padding and num_blocks
LocalPad ==
  /\ local_pc = "call"
  /\ LET block_length == LocalBlockLength(local_call.length, local_call.block_length)
         padding_size == LocalPaddingSize(local_call.length, block_length)
         length == local_call.length + padding_size
     IN local_plan' = [original_length |-> local_call.length,
                       block_length |-> block_length,
                       padding_size |-> padding_size,
                       length |-> length,
                       num_blocks |-> length \div block_length]
  /\ local_pc' = "padded"
  /\ UNCHANGED <<local_call, local_rows, local_output>>
  /\ UNCHANGED othersOfLocal

\* attention for the first query block
LocalFirstBlock ==
  /\ local_pc = "padded"
  /\ local_rows' = FirstBlockRows(local_plan.block_length)
  /\ local_pc' = "first"
  /\ UNCHANGED <<local_call, local_plan, local_output>>
  /\ UNCHANGED othersOfLocal

\* attention for all subsequent query blocks, concatenated to the first
LocalTailBlocks ==
  /\ local_pc = "first"
  /\ local_rows' = local_rows \o TailRows(local_plan.num_blocks, local_plan.block_length)
  /\ local_pc' = "tail"
  /\ UNCHANGED <<local_call, local_plan, local_output>>
  /\ UNCHANGED othersOfLocal

\* tf.slice(output, [0, 0, 0, 0], [-1, -1, original_length, -1])
LocalSlice ==
  /\ local_pc = "tail"
  /\ local_output' = SubSeq(local_rows, 1, local_plan.original_length)
  /\ local_pc' = "returned"
  /\ UNCHANGED <<local_call, local_plan, local_rows>>
  /\ UNCHANGED othersOfLocal

InitLocal ==
  /\ local_call \in [length : 1..MaxLocalLength, block_length : 1..MaxBlockLength]
  /\ local_pc = "call"
  /\ local_plan = NoLocalPlan
  /\ local_rows = <<>>
  /\ local_output = <<>>
  /\ OthersIdleOfLocal

NextLocal ==
  \/ LocalPad
  \/ LocalFirstBlock
  \/ LocalTailBlocks
  \/ LocalSlice

SpecLocal == InitLocal /\ [][NextLocal]_vars

\* the block of position p
BlockOf(p, block_length) == p \div block_length

\* C26: in masked_local_attention_1d the query at position p attends exactly
\* to the keys j <= p that lie in p's block or in the immediately preceding
\* block (a single block when length < 2 * block_length); the padding added
\* to reach a multiple of the block length is never attended by a real query,
\* and the output has the original length (for length 260 and block length
\* 128, 124 padded positions are added and discarded).
C26_LocalAttentionSeesOwnAndPreviousBlock ==
  /\ LocalPaddingSize(260, LocalBlockLength(260, DefaultBlockLength)) = 124
  /\ local_pc = "returned" =>
       LET length == local_call.length
           B == local_plan.block_length
       IN /\ Len(local_output) = length
          /\ Len(local_rows) = length + local_plan.padding_size
          /\ local_plan.length % B = 0
          /\ local_plan.padding_size \in 0..(B - 1)
          /\ length < 2 * local_call.block_length => local_plan.num_blocks = 1
          /\ \A p \in 0..(length - 1) :
               /\ local_output[p + 1] =
                    {j \in 0..p : \/ BlockOf(j, B) = BlockOf(p, B)
                                  \/ BlockOf(j, B) = BlockOf(p, B) - 1}
               /\ local_output[p + 1] \subseteq 0..(length - 1)

C26_Witness ==
  /\ local_pc = "returned"
  /\ local_call = [length |-> 5, block_length |-> 2]
  /\ local_plan.padding_size = 1
  /\ local_plan.num_blocks = 3
  /\ local_output[5] = {2, 3, 4}
  /\ Len(local_rows) = 6

----------------------------------------------------------------------------
(* layers/common_attention.py: multihead_self_attention_memory_efficient,  *)
(* the forward function.  forward_internal constructs a graph; a run       *)
(* executes an operation once all of its data inputs and control inputs    *)
(* have been executed, in any order that respects this.  An operation is   *)
(* named by the statement that creates it and the head h it belongs to     *)
(* (h = -1: created before the loop).                                      *)

MaxHeads == 3             \* num_heads ranges over 1..MaxHeads

Node(op, h) == [op |-> op, h |-> h]

\* the operations forward_internal creates before the loop
PreNodes == {Node("layer_norm", -1), Node("unstack_wqkv", -1), Node("unstack_wo", -1)}

\* the operations created in the body of the loop, in order of creation
HeadOps(with_bias) ==
  <<"conv_qkv", "split", "scalar", "q_scaled", "logits">>
  \o (IF with_bias THEN <<"logits_bias">> ELSE <<>>)
  \o <<"weights", "o", "conv_o", "y">>

HeadNodes(num_heads, with_bias) ==
  {Node(op, h) : op \in Range(HeadOps(with_bias)), h \in 0..(num_heads - 1)}

\* the tensors an operation consumes
DataInputs(node, with_bias) ==
  LET h == node.h
  IN CASE node.op = "conv_qkv" -> {Node("layer_norm", -1), Node("unstack_wqkv", -1)}
       [] node.op = "split" -> {Node("conv_qkv", h)}
       [] node.op = "scalar" -> {Node("split", h)}
       [] node.op = "q_scaled" -> {Node("split", h), Node("scalar", h)}
       [] node.op = "logits" -> {Node("q_scaled", h), Node("split", h)}
       [] node.op = "logits_bias" -> {Node("logits", h)}
       [] node.op = "weights" ->
            {Node(IF with_bias THEN "logits_bias" ELSE "logits", h)}
       [] node.op = "o" -> {Node("weights", h), Node("split", h)}
       [] node.op = "conv_o" -> {Node("o", h), Node("unstack_wo", -1)}
       [] node.op = "y" ->
            {Node("conv_o", h)} \cup (IF h > 0 THEN {Node("y", h - 1)} ELSE {})
       [] OTHER -> {}

\* mutant: the loop body is not wrapped in tf.control_dependencies
NoControlInputs(node, with_bias) == {}

\* with tf.control_dependencies([y] if h > 0 else []): an operation created
\* in the context gets y of the previous head as a control input unless one
\* of its data inputs was created in the same context
ControlInputs(node, with_bias) ==
  IF /\ node.h > 0
     /\ \A i \in DataInputs(node, with_bias) : i.h # node.h
    THEN {Node("y", node.h - 1)}
    ELSE {}

\* graph construction
ForwardInternal ==
  /\ heads_pc = "call"
  /\ heads_graph' =
       [node \in PreNodes \cup HeadNodes(heads_call.num_heads, heads_call.with_bias) |->
          [inputs |-> DataInputs(node, heads_call.with_bias),
           control_inputs |-> ControlInputs(node, heads_call.with_bias)]]
  /\ heads_pc' = "built"
  /\ UNCHANGED <<heads_call, heads_executed>>
  /\ UNCHANGED othersOfHeads

\* the runtime executes one operation that is ready
ExecuteOp ==
  /\ heads_pc = "built"
  /\ \E node \in (DOMAIN heads_graph) \ heads_executed :
       /\ heads_graph[node].inputs \subseteq heads_executed
       /\ heads_graph[node].control_inputs \subseteq heads_executed
       /\ heads_executed' = heads_executed \cup {node}
  /\ UNCHANGED <<heads_call, heads_pc, heads_graph>>
  /\ UNCHANGED othersOfHeads

InitHeads ==
  /\ heads_call \in [num_heads : 1..MaxHeads, with_bias : BOOLEAN]
  /\ heads_pc = "call"
  /\ heads_graph = <<>>
  /\ heads_executed = {}
  /\ OthersIdleOfHeads

NextHeads ==
  \/ ForwardInternal
  \/ ExecuteOp

SpecHeads == InitHeads /\ [][NextHeads]_vars

\* C27: in the forward function of
\* multihead_self_attention_memory_efficient, for every head h > 0, no
\* operation of head h is executed before the accumulated output y of the
\* heads 0..h-1 is complete.
C27_HeadsAreSerialized ==
  \A node \in heads_executed : node.h > 0 =>
    /\ Node("y", node.h - 1) \in heads_executed
    /\ \A earlier \in DOMAIN heads_graph :
         (earlier.h >= 0 /\ earlier.h < node.h) => earlier \in heads_executed

C27_Witness ==
  /\ heads_call.num_heads = 3
  /\ Node("conv_qkv", 2) \in heads_executed
  /\ Node("y", 1) \in heads_executed
  /\ Node("split", 2) \notin heads_executed

----------------------------------------------------------------------------
(* rl/envs/simulated_batch_env.py: HistoryBuffer and SimulatedBatchEnv.    *)
(* simulate() and reset() construct graphs; the Python attribute _assigned *)
(* is read and set while a graph is constructed.  A run of a constructed   *)
(* graph executes an operation once its data and control inputs have been  *)
(* executed.  A frame is a number; the history of a slot is the sequence   *)
(* of its num_frames frames, oldest first.                                 *)

MaxEnvRuns == 2           \* the graphs are run at most MaxEnvRuns times

EnvLength == 2            \* self.length: the number of environment slots
NumFrames == 2            \* self._num_frames

\* the elements of the dataset of initial frames; the frames the model predicts
InitialElements == {<<1, 2>>, <<2, 1>>}
PredictedFrames == {3, 4}

\* tf.zeros(initial_shape): the initial value of both variables
ZeroBuffer == [s \in 1..EnvLength |-> [f \in 1..NumFrames |-> 0]]
ZeroObserv == [s \in 1..EnvLength |-> 0]

\* tf.stack([initial_frames] * length)
StackInitialFrames(element) == [s \in 1..EnvLength |-> element]

\* mutant: the first frame of each slot instead of the last
FirstFrames(buff) == [s \in 1..Len(buff) |-> buff[s][1]]

\* history[:, -1, ...]
LastFrames(buff) == [s \in 1..Len(buff) |-> buff[s][Len(buff[s])]]

\* tf.concat([history[:, 1:, ...], tf.expand_dims(element, dim=1)], axis=1)
Moved(buff, element) == [s \in 1..Len(buff) |-> Tail(buff[s]) \o <<element[s]>>]

\* mutant: every slot is updated
ScatterUpdateAll(ref, indices, updates) ==
  [s \in 1..Len(ref) |-> IF indices # <<>> THEN updates[1] ELSE ref[s]]

\* tf.scatter_update(ref, indices, updates); slots are numbered from 0
ScatterUpdate(ref, indices, updates) ==
  [s \in 1..Len(ref) |->
     IF \E k \in 1..Len(indices) : indices[k] = s - 1
       THEN updates[CHOOSE k \in 1..Len(indices) :
                      /\ indices[k] = s - 1
                      /\ \A l \in (k + 1)..Len(indices) : indices[l] # s - 1]
       ELSE ref[s]]

\* initial_frames[:number_of_indices, ...]
FirstRows(initial_frames, number_of_indices) ==
  SubSeq(initial_frames, 1, Min(number_of_indices, Len(initial_frames)))

Op(inputs, control_inputs) == [inputs |-> inputs, control_inputs |-> control_inputs]

\* get_all_elements as called by simulate: the operations that produce history
\* when _assigned is False ("initialising") and when it is True ("rolling")
GetAllElementsGraph(kind) ==
  IF kind = "initialising"
    THEN [node \in {"get_next", "assign_initial", "identity_initial"} |->
            CASE node = "get_next" -> Op({}, {})
              [] node = "assign_initial" -> Op({"get_next"}, {})
              [] node = "identity_initial" -> Op({"get_next"}, {"assign_initial"})]
    ELSE [node \in {"read_history"} |-> Op({}, {})]

\* the operation whose output simulate feeds to the model as history
HistoryNode(kind) == IF kind = "initialising" THEN "identity_initial" ELSE "read_history"

\* the graph simulate constructs
SimulateGraph(kind) ==
  GetAllElementsGraph(kind) @@
  [node \in {"infer", "assign_observ", "read_moved", "moved", "assign_moved",
             "read_value", "return"} |->
     CASE node = "infer" -> Op({HistoryNode(kind)}, {})
       [] node = "assign_observ" -> Op({"infer"}, {"infer"})
       [] node = "read_moved" -> Op({}, {"infer"})
       [] node = "moved" -> Op({"read_moved", "infer"}, {})
       [] node = "assign_moved" -> Op({"moved"}, {"moved"})
       [] node = "read_value" -> Op({}, {"assign_moved"})
       [] node = "return" -> Op({"infer"}, {"assign_observ", "read_value"})]

\* the operations of the branch of tf.cond that reset evaluates
ResetGraph(indices) ==
  IF indices = <<>>
    THEN [node \in {"get_next", "cond_false"} |-> Op({}, {})]
    ELSE [node \in {"get_next", "scatter_update", "read_reset", "read_all",
                    "assign_last", "read_observ"} |->
            CASE node = "get_next" -> Op({}, {})
              [] node = "scatter_update" -> Op({"get_next"}, {})
              [] node = "read_reset" -> Op({}, {"scatter_update"})
              [] node = "read_all" -> Op({}, {"read_reset"})
              [] node = "assign_last" -> Op({"read_all"}, {"read_reset"})
              [] node = "read_observ" -> Op({}, {"assign_last"})]

\* the operations that write the history buffer, and those that read it
BufferWrites == {"assign_initial", "assign_moved", "scatter_update"}
BufferReads == {"read_history", "read_moved", "read_value", "read_reset", "read_all"}

NoRun == [op |-> "none", indices |-> <<>>, executed |-> {}, t |-> <<>>]

\* the graph of the current run
RunGraph ==
  CASE env_run.op = "simulate" -> SimulateGraph(env_ops.simulate)
    [] env_run.op = "reset" -> ResetGraph(env_run.indices)
    [] OTHER -> <<>>

RunCompleted == env_run.op # "none" /\ env_run.executed = DOMAIN RunGraph

\* the index tensors reset is run with
ResetIndices == {<<>>, <<0>>, <<1>>, <<0, 1>>, <<1, 0>>}

\* the values an operation may produce in the current state
NodeValues(node) ==
  LET t == env_run.t
  IN CASE node = "get_next" -> {StackInitialFrames(e) : e \in InitialElements}
       [] node = "assign_initial" -> {t["get_next"]}
       [] node = "identity_initial" -> {t["get_next"]}
       [] node = "infer" -> [1..EnvLength -> PredictedFrames]
       [] node = "assign_observ" -> {t["infer"]}
       [] node = "moved" -> {Moved(t["read_moved"], t["infer"])}
       [] node = "assign_moved" -> {t["moved"]}
       [] node = "scatter_update" ->
            {ScatterUpdate(env_buff, env_run.indices,
                           FirstRows(t["get_next"], Len(env_run.indices)))}
       [] node = "assign_last" -> {LastFrames(t["read_all"])}
       [] node = "read_observ" -> {env_observ}
       [] node \in BufferReads -> {env_buff}
       [] OTHER -> {0}

\* simulate is constructed: get_all_elements reads _assigned, and sets it
ConstructSimulate ==
  /\ env_ops.simulate = "none"
  /\ env_run.op = "none" \/ RunCompleted
  /\ env_ops' = [env_ops EXCEPT !.simulate =
                   IF env_assigned THEN "rolling" ELSE "initialising"]
  /\ env_assigned' = TRUE
  /\ UNCHANGED <<env_buff, env_observ, env_run, env_prev, env_runs>>
  /\ UNCHANGED othersOfEnv

\* reset is constructed: HistoryBuffer.reset sets _assigned
ConstructReset ==
  /\ env_ops.reset = "none"
  /\ env_run.op = "none" \/ RunCompleted
  /\ env_ops' = [env_ops EXCEPT !.reset = "built"]
  /\ env_assigned' = TRUE
  /\ UNCHANGED <<env_buff, env_observ, env_run, env_prev, env_runs>>
  /\ UNCHANGED othersOfEnv

\* session.run of the operation simulate returned
RunSimulate ==
  /\ env_ops.simulate # "none"
  /\ env_run.op = "none" \/ RunCompleted
  /\ env_runs < MaxEnvRuns
  /\ env_run' = [NoRun EXCEPT !.op = "simulate"]
  /\ env_prev' = [buff |-> env_buff, observ |-> env_observ]
  /\ env_runs' = env_runs + 1
  /\ UNCHANGED <<env_assigned, env_ops, env_buff, env_observ>>
  /\ UNCHANGED othersOfEnv

\* session.run of the operation reset returned, fed with indices
RunReset ==
  /\ env_ops.reset # "none"
  /\ env_run.op = "none" \/ RunCompleted
  /\ env_runs < MaxEnvRuns
  /\ \E indices \in ResetIndices : env_run' = [NoRun EXCEPT !.op = "reset", !.indices = indices]
  /\ env_prev' = [buff |-> env_buff, observ |-> env_observ]
  /\ env_runs' = env_runs + 1
  /\ UNCHANGED <<env_assigned, env_ops, env_buff, env_observ>>
  /\ UNCHANGED othersOfEnv

\* the runtime executes one operation of the current run that is ready
EnvExecute ==
  /\ env_run.op # "none"
  /\ \E node \in (DOMAIN RunGraph) \ env_run.executed :
       /\ RunGraph[node].inputs \subseteq env_run.executed
       /\ RunGraph[node].control_inputs \subseteq env_run.executed
       /\ \E value \in NodeValues(node) :
            /\ env_run' = [env_run EXCEPT !.executed = @ \cup {node},
                                          !.t = (node :> value) @@ @]
            /\ env_buff' = IF node \in BufferWrites THEN value ELSE env_buff
            /\ env_observ' = IF node \in {"assign_observ", "assign_last"}
                               THEN value ELSE env_observ
  /\ UNCHANGED <<env_assigned, env_ops, env_prev, env_runs>>
  /\ UNCHANGED othersOfEnv

InitEnv ==
  /\ env_assigned = FALSE
  /\ env_ops = [simulate |-> "none", reset |-> "none"]
  /\ env_buff = ZeroBuffer
  /\ env_observ = ZeroObserv
  /\ env_run = NoRun
  /\ env_prev = [buff |-> ZeroBuffer, observ |-> ZeroObserv]
  /\ env_runs = 0
  /\ OthersIdleOfEnv

NextEnv ==
  \/ ConstructSimulate
  \/ ConstructReset
  \/ RunSimulate
  \/ RunReset
  \/ EnvExecute

SpecEnv == InitEnv /\ [][NextEnv]_vars

\* the reads of the history buffer a simulate step computes with
StepReads == {"read_history", "read_moved"} \cap DOMAIN RunGraph

\* C23: in every execution of simulate the step's read of the history buffer
\* happens before any write to that buffer in the same step, and the writes
\* to the history buffer and to the observation variable are applied only
\* after the model output of the step has been computed.
C23_ReadThenWrite ==
  env_run.op = "simulate" =>
    /\ \A w \in BufferWrites \cap env_run.executed :
         /\ "infer" \in env_run.executed
         /\ StepReads \subseteq env_run.executed
    /\ "assign_observ" \in env_run.executed => "infer" \in env_run.executed

\* C24: SimulatedBatchEnv keeps a rolling history of the last NumFrames
\* frames per slot, whichever of reset and simulate was constructed first:
\* every execution of simulate feeds the model the buffer the preceding
\* execution left, afterwards every slot's buffer is its previous content
\* with the oldest frame dropped and the predicted observation appended, and
\* simulate never re-initialises the buffer to the initial frames.
C24_RollingHistory ==
  (env_run.op = "simulate" /\ RunCompleted) =>
    /\ env_run.t[HistoryNode(env_ops.simulate)] = env_prev.buff
    /\ env_buff = Moved(env_prev.buff, env_run.t["infer"])
    /\ \A s \in 1..EnvLength : Len(env_buff[s]) = NumFrames
    /\ "assign_initial" \notin env_run.executed

\* the slots listed in an index tensor (numbered from 1 here)
Listed(indices) == {indices[k] + 1 : k \in 1..Len(indices)}

\* C25: reset(indices) re-seeds exactly the listed slots: after it every
\* listed slot holds an initial frame sequence in the history buffer, the
\* history of every other slot is unchanged, and reset with empty indices
\* changes neither the history buffer nor the observation variable.
C25_ResetReseedsListedSlots ==
  (env_run.op = "reset" /\ RunCompleted) =>
    /\ \A s \in 1..EnvLength :
         /\ s \in Listed(env_run.indices) =>
              /\ env_buff[s] \in InitialElements
              /\ env_buff[s] = env_run.t["get_next"][s]
         /\ s \notin Listed(env_run.indices) => env_buff[s] = env_prev.buff[s]
    /\ env_run.indices = <<>> =>
         /\ env_buff = env_prev.buff
         /\ env_observ = env_prev.observ

C25_Witness ==
  /\ env_run.op = "reset"
  /\ RunCompleted
  /\ env_run.indices = <<1>>
  /\ env_prev.buff = <<<<0, 3>>, <<0, 4>>>>
  /\ env_buff = <<<<0, 3>>, <<1, 2>>>>

\* C28: after every completed execution of reset or simulate, in any order
\* and any number of times, the observation variable of every slot equals
\* the last frame of that slot's history buffer.
C28_ObservIsLastFrame ==
  (env_run.op = "none" \/ RunCompleted) =>
    \A s \in 1..EnvLength : env_observ[s] = env_buff[s][NumFrames]

C28_Witness ==
  /\ env_run.op = "reset"
  /\ RunCompleted
  /\ env_runs = 2
  /\ env_run.indices = <<1>>
  /\ env_observ = <<3, 2>>
  /\ env_prev.observ = <<3, 4>>

----------------------------------------------------------------------------
(* rl/rl_utils.py: BatchStackWrapper.  The wrapped environment returns one *)
(* observation per environment; an observation is a number.  stack_log is  *)
(* the record of what the wrapped environment returned for each slot since *)
(* the slot's most recent reset (empty before its first reset).            *)

MaxStackCalls == 5        \* reset and step are called at most MaxStackCalls times

StackBatchSize == 2       \* self.env.batch_size
StackSize == 3            \* self.stack_size

Observations == {1, 2}

\* np.zeros((self.batch_size,) + self.observation_space.shape)
ZeroHistory == [i \in 1..StackBatchSize |-> [k \in 1..StackSize |-> 0]]

\* mutant: the stack is rolled towards the end
RollForward(stack) ==
  <<stack[Len(stack)]>> \o SubSeq(stack, 1, Len(stack) - 1)

\* np.roll(stack, shift=-1) along the stack axis
Roll(stack) == Tail(stack) \o <<Head(stack)>>

\* [observation] * self.stack_size
Repeat(observation, stack_size) == [k \in 1..stack_size |-> observation]

\* the index lists reset is called with; "None" stands for the default
StackIndices == {"None", <<0>>, <<1>>}

\* indices = range(self.batch_size) if indices is None
IndicesOrAll(indices) ==
  IF indices = "None" THEN [k \in 1..StackBatchSize |-> k - 1] ELSE indices

\* BatchStackWrapper.reset
StackReset ==
  /\ stack_pc = "ready"
  /\ stack_calls < MaxStackCalls
  /\ \E given \in StackIndices :
       LET indices == IndicesOrAll(given)
       IN \E observations \in [1..Len(indices) -> Observations] :
            LET at(i) == CHOOSE k \in 1..Len(indices) : indices[k] = i - 1
                listed(i) == \E k \in 1..Len(indices) : indices[k] = i - 1
            IN /\ stack_history' =
                    [i \in 1..StackBatchSize |->
                       IF listed(i) THEN Repeat(observations[at(i)], StackSize)
                       ELSE stack_history[i]]
               /\ stack_log' =
                    [i \in 1..StackBatchSize |->
                       IF listed(i) THEN <<observations[at(i)]>> ELSE stack_log[i]]
  /\ stack_calls' = stack_calls + 1
  /\ UNCHANGED stack_pc
  /\ UNCHANGED othersOfStack

\* BatchStackWrapper.step
StackStep ==
  /\ stack_pc = "ready"
  /\ stack_calls < MaxStackCalls
  /\ \E observations \in [1..StackBatchSize -> Observations] :
       /\ stack_history' =
            [i \in 1..StackBatchSize |->
               [Roll(stack_history[i]) EXCEPT ![StackSize] = observations[i]]]
       /\ stack_log' =
            [i \in 1..StackBatchSize |->
               IF stack_log[i] = <<>> THEN <<>>
               ELSE Append(stack_log[i], observations[i])]
  /\ stack_calls' = stack_calls + 1
  /\ UNCHANGED stack_pc
  /\ UNCHANGED othersOfStack

InitStack ==
  /\ stack_pc = "ready"
  /\ stack_history = ZeroHistory
  /\ stack_log = [i \in 1..StackBatchSize |-> <<>>]
  /\ stack_calls = 0
  /\ OthersIdleOfStack

NextStack ==
  \/ StackReset
  \/ StackStep

SpecStack == InitStack /\ [][NextStack]_vars

\* the last stack_size entries of a log, oldest first, left-filled with
\* copies of its first entry
LastOfLog(log, stack_size) ==
  IF Len(log) >= stack_size
    THEN SubSeq(log, Len(log) - stack_size + 1, Len(log))
    ELSE Repeat(log[1], stack_size - Len(log)) \o log

\* C29: for BatchStackWrapper, after any sequence of reset and step calls in
\* which every slot has been reset at least once, the history of slot i is
\* the last stack_size observations returned for environment i since (and
\* including) its most recent reset, oldest first, left-filled with copies
\* of that reset's observation when fewer steps have followed it.
C29_HistoryIsLastObservations ==
  (stack_pc = "ready" /\ \A i \in 1..StackBatchSize : stack_log[i] # <<>>) =>
    \A i \in 1..StackBatchSize :
      stack_history[i] = LastOfLog(stack_log[i], StackSize)

C29_Witness ==
  /\ stack_pc = "ready"
  /\ stack_log = << <<1, 2, 1, 2>>, <<1, 2>> >>
  /\ stack_history = << <<2, 1, 2>>, <<1, 1, 2>> >>

----------------------------------------------------------------------------
(* trax/layers/combinators.py: Serial.  A sub-layer is named by its        *)
(* position 1..n; the value a layer returns is represented by the sequence *)
(* of the layers applied to the input so far.                              *)

MaxLayers == 3            \* Serial has 0..MaxLayers sub-layers
MaxParams == 4            \* params has 0..MaxParams entries

\* layer(x, p, rng=rng)
ApplyLayer(layer_index, x) == Append(x, layer_index)

\* rngs: (None,) * n, or backend.random.split(rng, n)
SerialRngs(nlayers, rng) ==
  [k \in 1..nlayers |-> IF rng = "None" THEN "None" ELSE "key"]

\* the number of triples zip(self._layers, params, rngs) yields
ZipLength(nlayers, params, rngs) == Min(nlayers, Min(Len(params), Len(rngs)))

\* the layers Serial.output_shape and Serial.new_parameters go through
AllLayers(nlayers) == [k \in 1..nlayers |-> k]

\* Serial.call: up to the loop
SerialCall ==
  /\ serial_pc = "call"
  /\ serial_pc' = "loop"
  /\ serial_x' = <<>>
  /\ serial_i' = 0
  /\ UNCHANGED serial_call
  /\ UNCHANGED othersOfSerial

\* one iteration of the loop over zip(self._layers, params, rngs)
SerialLoop ==
  /\ serial_pc = "loop"
  /\ serial_i < ZipLength(serial_call.nlayers, serial_call.params,
                          SerialRngs(serial_call.nlayers, serial_call.rng))
  /\ serial_x' = ApplyLayer(serial_i + 1, serial_x)
  /\ serial_i' = serial_i + 1
  /\ UNCHANGED <<serial_call, serial_pc>>
  /\ UNCHANGED othersOfSerial

\* return x
SerialReturn ==
  /\ serial_pc = "loop"
  /\ serial_i = ZipLength(serial_call.nlayers, serial_call.params,
                          SerialRngs(serial_call.nlayers, serial_call.rng))
  /\ serial_pc' = "returned"
  /\ UNCHANGED <<serial_call, serial_x, serial_i>>
  /\ UNCHANGED othersOfSerial

InitSerial ==
  /\ \E nlayers \in 0..MaxLayers, nparams \in 0..MaxParams, rng \in {"None", "key"} :
       serial_call = [nlayers |-> nlayers,
                      params |-> [k \in 1..nparams |-> "p"],
                      rng |-> rng]
  /\ serial_pc = "call"
  /\ serial_x = <<>>
  /\ serial_i = 0
  /\ OthersIdleOfSerial

NextSerial ==
  \/ SerialCall
  \/ SerialLoop
  \/ SerialReturn

SpecSerial == InitSerial /\ [][NextSerial]_vars

\* C30: Serial(l1, ..., ln).call(x, params) composes the sub-layers
\* serially: for every params the call accepts, the default params=()
\* included, each of the n sub-layers is applied exactly once, in order, so
\* that the result is ln(...l1(x)...).
C30_EveryLayerAppliedOnce ==
  serial_pc = "returned" => serial_x = AllLayers(serial_call.nlayers)

====
